---- MODULE Spec2Model ----
(***************************************************************************)
(* Model of the drawing canvas (src/src/components/canvas/Canvas.tsx) and  *)
(* of the page that owns the Stroke and Shape collections                  *)
(* (src/src/app/page.tsx).                                                 *)
(*                                                                         *)
(* Numbers.  A JavaScript number is modelled as an exact fraction <<n,d>>  *)
(* in lowest terms with d > 0, or as one of the three IEEE special values  *)
(* <<1,0>> (+Infinity), <<-1,0>> (-Infinity) and <<0,0>> (NaN).  Rounding  *)
(* of doubles is not modelled and zero is unsigned.                        *)
(*                                                                         *)
(* Scheduling.  Every action is one event handler followed by the React    *)
(* re-render it causes, so a handler reads the state committed by the      *)
(* previous event.  Operators that read a value captured by a closure take *)
(* that value as a parameter.                                              *)
(***************************************************************************)
EXTENDS Integers, Sequences, FiniteSets, TLC

VARIABLES
    zoom,            \* Canvas.tsx:206  useState(1)
    pan,             \* Canvas.tsx:207  useState({x: 0, y: 0})
    isPanning,       \* Canvas.tsx:318
    lastPanPoint,    \* Canvas.tsx:319  client coordinates or Null
    isDrawing,       \* Canvas.tsx:202
    currentPoints,   \* Canvas.tsx:203  in-progress freehand / eraser path
    currentShape,    \* Canvas.tsx:204  in-progress shape or Null
    textInput,       \* Canvas.tsx:205  open text entry or Null
    selectedElement, \* Canvas.tsx:210  [type, id] or Null
    isDragging,      \* Canvas.tsx:211
    isResizing,      \* Canvas.tsx:212
    dragStart,       \* Canvas.tsx:213
    resizeHandle,    \* Canvas.tsx:214
    hoverHandle,     \* Canvas.tsx:215
    shapeType,       \* page.tsx:35     active tool
    isEraseMode,     \* page.tsx:36
    strokeWidth,     \* page.tsx:33
    color,           \* page.tsx:32
    brushType,       \* page.tsx:34
    strokes,         \* page.tsx:37
    shapes,          \* page.tsx:38
    nextId,          \* number of ids drawn from Math.random so far
    ev,              \* the event handled by the last step
    created,         \* ids in the order their elements were committed
    viewLog,         \* the last two viewport events, newest first, each with
                     \* the zoom and pan it found
    budget,          \* events still allowed, per kind of event
    gesture          \* the events since the pointer went down: kind
                     \* "freehand", "erase" or "shape" with the world points
                     \* of an uninterrupted gesture of that kind, "other", or
                     \* "none"; ended is the kind of the gesture that the
                     \* pointer-up just handled has ended

vars == <<zoom, pan, isPanning, lastPanPoint, isDrawing, currentPoints,
          currentShape, textInput, selectedElement, isDragging, isResizing,
          dragStart, resizeHandle, hoverHandle, shapeType, isEraseMode,
          strokeWidth, color, brushType, strokes, shapes, nextId, ev,
          created, viewLog, budget, gesture>>

viewVars == <<zoom, pan>>
gestureVars == <<isDrawing, currentPoints, currentShape, isDragging,
                 isResizing, dragStart, resizeHandle, hoverHandle>>
toolVars == <<shapeType, isEraseMode, strokeWidth, color, brushType>>
sceneVars == <<strokes, shapes, selectedElement, nextId, created>>

\* null for object-valued state, for a resize handle, and the values of the
\* optional fields text and pressure where the code leaves them out
Null == [null |-> TRUE]
NoHandle == "none"
NoText == "undefined"
NoPressure == <<>>

-----------------------------------------------------------------------------
(* Bounds of the model.                                                    *)

Gesture(kind, pts) == [kind |-> kind, pts |-> pts, ended |-> "none"]
NoGesture == Gesture("none", <<>>)
\* the gesture after an event that is no pointer event
Interrupted == IF gesture.kind = "none" THEN NoGesture
               ELSE Gesture("other", <<>>)
\* a drag gesture remembers the scene it started from
DragGesture(point, shapes0, strokes0) ==
    [kind |-> "drag", pts |-> <<point>>, ended |-> "none",
     origin |-> [shapes |-> shapes0, strokes |-> strokes0]]

HalfWidth == 40          \* half the width of the container's rectangle
HalfHeight == 30         \* half the height of the container's rectangle
ContainerWidth == 2 * HalfWidth
ContainerHeight == 2 * HalfHeight
MaxViewSteps == 3        \* viewport events per behaviour of SpecView

-----------------------------------------------------------------------------
(* JavaScript numbers.                                                     *)

Abs(i) == IF i < 0 THEN -i ELSE i
Sgn(i) == IF i < 0 THEN -1 ELSE IF i > 0 THEN 1 ELSE 0

RECURSIVE GCD(_, _)
GCD(a, b) == IF b = 0 THEN a ELSE GCD(b, a % b)

Norm(n, d) ==
    IF d = 0 THEN <<Sgn(n), 0>>
    ELSE LET g == GCD(Abs(n), Abs(d))
             s == IF d < 0 THEN -1 ELSE 1
         IN  <<(s * n) \div g, (s * d) \div g>>

Num(i) == <<i, 1>>
Frac(n, d) == Norm(n, d)
NaN == <<0, 0>>
Infinity == <<1, 0>>

IsNaN(a) == a = NaN
IsFinite(a) == a[2] # 0

Add(a, b) ==
    IF IsNaN(a) \/ IsNaN(b) THEN NaN
    ELSE IF ~IsFinite(a) /\ ~IsFinite(b) THEN (IF a = b THEN a ELSE NaN)
    ELSE IF ~IsFinite(a) THEN a
    ELSE IF ~IsFinite(b) THEN b
    ELSE LET g == GCD(a[2], b[2])
         IN  Norm(a[1] * (b[2] \div g) + b[1] * (a[2] \div g),
                  (a[2] \div g) * b[2])
Neg(a) == <<-a[1], a[2]>>
Sub(a, b) == Add(a, Neg(b))
Mul(a, b) ==
    IF ~IsFinite(a) \/ ~IsFinite(b) THEN Norm(a[1] * b[1], 0)
    ELSE LET g1 == GCD(Abs(a[1]), b[2])
             g2 == GCD(Abs(b[1]), a[2])
         IN  <<(a[1] \div g1) * (b[1] \div g2), (a[2] \div g2) * (b[2] \div g1)>>
Inv(a) == Norm(a[2], a[1])
Div(a, b) == Mul(a, Inv(b))

\* n1/d1 < n2/d2 for d1, d2 > 0, by comparing integer parts and then the
\* reciprocals of the fractional parts
RECURSIVE FracLt(_, _, _, _)
FracLt(n1, d1, n2, d2) ==
    LET q1 == n1 \div d1
        q2 == n2 \div d2
        r1 == n1 % d1
        r2 == n2 % d2
    IN  IF q1 # q2 THEN q1 < q2
        ELSE IF r2 = 0 THEN FALSE
        ELSE IF r1 = 0 THEN TRUE
        ELSE FracLt(d2, r2, d1, r1)

\* a < b, a <= b and a === b of JavaScript: false when an operand is NaN
Lt(a, b) ==
    /\ ~IsNaN(a) /\ ~IsNaN(b)
    /\ IF ~IsFinite(a) \/ ~IsFinite(b)
       THEN (IF IsFinite(a) THEN b[1] > 0
             ELSE IF IsFinite(b) THEN a[1] < 0
             ELSE a[1] < b[1])
       ELSE FracLt(a[1], a[2], b[1], b[2])
Eq(a, b) == ~IsNaN(a) /\ ~IsNaN(b) /\ a = b
Le(a, b) == Lt(a, b) \/ Eq(a, b)
Gt(a, b) == Lt(b, a)
Ge(a, b) == Le(b, a)

\* Math.min / Math.max of two numbers: NaN when an operand is NaN
Min2(a, b) == IF IsNaN(a) \/ IsNaN(b) THEN NaN ELSE IF Lt(b, a) THEN b ELSE a
Max2(a, b) == IF IsNaN(a) \/ IsNaN(b) THEN NaN ELSE IF Lt(a, b) THEN b ELSE a
AbsN(a) == <<Abs(a[1]), a[2]>>

ZoomStep == Frac(1, 10)     \* the 0.1 of handleZoomIn, handleZoomOut, handleWheel
ZoomMin == Frac(1, 10)
ZoomMax == Num(3)

-----------------------------------------------------------------------------
(* Viewport.                                                               *)

Event(t, x, y, d, s) == [type |-> t, x |-> x, y |-> y, d |-> d, s |-> s]

\* the pan that keeps the screen point c fixed when zoom goes from z to nz
PanAbout(c, p, nz, z) == Sub(c, Mul(Sub(c, p), Div(nz, z)))

ZoomInValueUnclamped(prev) == Add(prev, ZoomStep)
ZoomInValue(prev) == Min2(Add(prev, ZoomStep), ZoomMax)
ZoomOutValue(prev) == Max2(Sub(prev, ZoomStep), ZoomMin)

CenterX == Frac(ContainerWidth, 2)
CenterY == Frac(ContainerHeight, 2)

\* [zoom, pan] after the zoom-in button, from zoom prev and pan prevPan
ZoomInView(prev, prevPan) ==
    LET newZoom == ZoomInValue(prev)
    IN  [zoom |-> newZoom,
         pan  |-> [x |-> PanAbout(CenterX, prevPan.x, newZoom, prev),
                   y |-> PanAbout(CenterY, prevPan.y, newZoom, prev)]]

ZoomOutViewAboutOrigin(prev, prevPan) ==
    [zoom |-> Max2(Sub(prev, ZoomStep), ZoomMin),
     pan  |-> [x |-> Mul(prevPan.x, Div(Max2(Sub(prev, ZoomStep), ZoomMin), prev)),
               y |-> Mul(prevPan.y, Div(Max2(Sub(prev, ZoomStep), ZoomMin), prev))]]

ZoomOutView(prev, prevPan) ==
    LET newZoom == ZoomOutValue(prev)
    IN  [zoom |-> newZoom,
         pan  |-> [x |-> PanAbout(CenterX, prevPan.x, newZoom, prev),
                   y |-> PanAbout(CenterY, prevPan.y, newZoom, prev)]]

WheelViewKeepsPan(z, prevPan, ctrlKey, deltaX, deltaY, mouseX, mouseY) ==
    IF ctrlKey
    THEN [zoom |-> Max2(ZoomMin, Min2(ZoomMax,
                     Add(z, IF -deltaY > 0 THEN ZoomStep ELSE Neg(ZoomStep)))),
          pan  |-> prevPan]
    ELSE [zoom |-> z,
          pan  |-> [x |-> Sub(prevPan.x, Num(deltaX)),
                    y |-> Sub(prevPan.y, Num(deltaY))]]

\* zoom computed by handleWheel from the zoom value z its closure captured
WheelZoomValue(z, deltaY) ==
    LET delta == -deltaY
    IN  Max2(ZoomMin, Min2(ZoomMax,
              Add(z, IF delta > 0 THEN ZoomStep ELSE Neg(ZoomStep))))

\* [zoom, pan] after a wheel event; z is the zoom captured by the closure
WheelView(z, prevPan, ctrlKey, deltaX, deltaY, mouseX, mouseY) ==
    IF ctrlKey
    THEN LET newZoom == WheelZoomValue(z, deltaY)
         IN  [zoom |-> newZoom,
              pan  |-> [x |-> PanAbout(Num(mouseX), prevPan.x, newZoom, z),
                        y |-> PanAbout(Num(mouseY), prevPan.y, newZoom, z)]]
    ELSE [zoom |-> z,
          pan  |-> [x |-> Sub(prevPan.x, Num(deltaX)),
                    y |-> Sub(prevPan.y, Num(deltaY))]]

\* viewLog after a viewport event of type t at screen point (x, y)
Logged(t, x, y, d) ==
    <<[type |-> t, x |-> x, y |-> y, d |-> d, zoom |-> zoom, pan |-> pan]>>
    \o (IF viewLog = <<>> THEN <<>> ELSE <<viewLog[1]>>)

\* client positions of the pointer: two corners and the centre of the
\* container
ClientPts == {<<0, 0>>, <<HalfWidth, HalfHeight>>, <<ContainerWidth, 0>>}
WheelDeltas == {<<0, -100>>, <<0, 100>>, <<30, 0>>}

handleZoomInClearingSelection ==
    /\ budget.view > 0
    /\ LET v == ZoomInView(zoom, pan)
       IN  zoom' = v.zoom /\ pan' = v.pan
    /\ ev' = Event("zoomIn", 0, 0, 0, "")
    /\ viewLog' = Logged("zoomIn", 0, 0, 0)
    /\ budget' = [budget EXCEPT !.view = @ - 1]
    /\ gesture' = Interrupted
    /\ selectedElement' = Null
    /\ UNCHANGED <<isPanning, lastPanPoint, gestureVars, textInput, toolVars,
                   strokes, shapes, nextId, created>>

handleZoomIn ==
    /\ budget.view > 0
    /\ LET v == ZoomInView(zoom, pan)
       IN  zoom' = v.zoom /\ pan' = v.pan
    /\ ev' = Event("zoomIn", 0, 0, 0, "")
    /\ viewLog' = Logged("zoomIn", 0, 0, 0)
    /\ budget' = [budget EXCEPT !.view = @ - 1]
    /\ gesture' = Interrupted
    /\ UNCHANGED <<isPanning, lastPanPoint, gestureVars, textInput, toolVars,
                   sceneVars>>

handleZoomOut ==
    /\ budget.view > 0
    /\ LET v == ZoomOutView(zoom, pan)
       IN  zoom' = v.zoom /\ pan' = v.pan
    /\ ev' = Event("zoomOut", 0, 0, 0, "")
    /\ viewLog' = Logged("zoomOut", 0, 0, 0)
    /\ budget' = [budget EXCEPT !.view = @ - 1]
    /\ gesture' = Interrupted
    /\ UNCHANGED <<isPanning, lastPanPoint, gestureVars, textInput, toolVars,
                   sceneVars>>

handleWheel ==
    /\ budget.view > 0
    /\ \E ctrlKey \in BOOLEAN, metaKey \in BOOLEAN, d \in WheelDeltas,
          c \in ClientPts :
         /\ LET v == WheelView(zoom, pan, ctrlKey, d[1], d[2], c[1], c[2])
            IN  zoom' = v.zoom /\ pan' = v.pan
         /\ ev' = Event(IF ctrlKey THEN "wheelZoom" ELSE "wheelPan",
                        c[1], c[2], d[2], IF metaKey THEN "meta" ELSE "")
         /\ viewLog' = Logged(IF ctrlKey THEN "wheelZoom" ELSE "wheelPan",
                               c[1], c[2], d[2])
    /\ budget' = [budget EXCEPT !.view = @ - 1]
    /\ gesture' = Interrupted
    /\ UNCHANGED <<isPanning, lastPanPoint, gestureVars, textInput, toolVars,
                   sceneVars>>


\* two wheel events handled by the handleWheel of one render, before the
\* component renders again: both read the zoom of the closure, the setPan
\* updaters run in the order of the events on the pending pan, and the
\* setZoom of the last Ctrl-wheel event decides the zoom
handleWheelBatch ==
    /\ budget.view > 1
    /\ \E ctrl1 \in BOOLEAN, ctrl2 \in BOOLEAN, d1 \in WheelDeltas,
          d2 \in WheelDeltas, c1 \in ClientPts, c2 \in ClientPts :
         \E v1 \in {WheelView(zoom, pan, ctrl1, d1[1], d1[2], c1[1], c1[2])} :
         \E v2 \in {WheelView(zoom, v1.pan, ctrl2, d2[1], d2[2], c2[1],
                               c2[2])} :
           /\ zoom' = IF ctrl2 THEN v2.zoom ELSE v1.zoom
           /\ pan' = v2.pan
           /\ ev' = Event("wheelBatch", c2[1], c2[2], d2[2], "")
           /\ viewLog' =
                <<[type |-> IF ctrl2 THEN "wheelZoom" ELSE "wheelPan",
                   x |-> c2[1], y |-> c2[2], d |-> d2[2], zoom |-> zoom,
                   pan |-> v1.pan],
                  [type |-> IF ctrl1 THEN "wheelZoom" ELSE "wheelPan",
                   x |-> c1[1], y |-> c1[2], d |-> d1[2], zoom |-> zoom,
                   pan |-> pan]>>
    /\ budget' = [budget EXCEPT !.view = @ - 2]
    /\ gesture' = Interrupted
    /\ UNCHANGED <<isPanning, lastPanPoint, gestureVars, textInput, toolVars,
                   sceneVars>>

-----------------------------------------------------------------------------
(* Points, Strokes and Shapes.                                             *)

\* a Point {x, y, pressure}; pressure is NoPressure where the code leaves it out
Point(x, y, pressure) == [x |-> x, y |-> y, pressure |-> pressure]

\* a Shape.  shared is TRUE while startPoint and endPoint are one and the
\* same object (handlePointerDown stores the down point in both fields).
Shape(type, startPoint, endPoint, col, width, id, text, shared) ==
    [type |-> type, startPoint |-> startPoint, endPoint |-> endPoint,
     color |-> col, width |-> width, id |-> id, text |-> text,
     shared |-> shared]

Stroke(points, col, width, brush, id) ==
    [points |-> points, color |-> col, width |-> width, brushType |-> brush,
     id |-> id]

IsStroke(element) == "points" \in DOMAIN element

\* strokes.find / shapes.find by id: the first match, or Null
Find(coll, id) ==
    IF \E i \in 1..Len(coll) : coll[i].id = id
    THEN coll[CHOOSE i \in 1..Len(coll) :
                /\ coll[i].id = id
                /\ \A j \in 1..(i - 1) : coll[j].id # id]
    ELSE Null

\* the element selectedElement refers to, or Null
SelectedIn(sel, ss, ks) ==
    IF sel = Null THEN Null
    ELSE IF sel.type = "shape" THEN Find(ss, sel.id) ELSE Find(ks, sel.id)

RECURSIVE MinOf(_)
MinOf(q) == IF Len(q) = 0 THEN Infinity
            ELSE IF Len(q) = 1 THEN q[1] ELSE Min2(q[1], MinOf(Tail(q)))
RECURSIVE MaxOf(_)
MaxOf(q) == IF Len(q) = 0 THEN Neg(Infinity)
            ELSE IF Len(q) = 1 THEN q[1] ELSE Max2(q[1], MaxOf(Tail(q)))

Xs(points) == [i \in 1..Len(points) |-> points[i].x]
Ys(points) == [i \in 1..Len(points) |-> points[i].y]

\* ctx.measureText(text).width for the font `${fontSize}px Arial`: the
\* platform's glyph metrics, taken as half the font size per character
MeasureTextWidth(text, fontSize) == Frac(Len(text) * fontSize, 2)

FontSize(width) == width * 10

\* the bounds {x, y, width, height} used for the selection box and handles
BoundsOf(element) ==
    IF IsStroke(element)
    THEN LET xs == Xs(element.points)
             ys == Ys(element.points)
         IN  [x |-> MinOf(xs), y |-> MinOf(ys),
              width |-> Sub(MaxOf(xs), MinOf(xs)),
              height |-> Sub(MaxOf(ys), MinOf(ys))]
    ELSE IF element.type = "text" /\ element.text # NoText /\ element.text # ""
    THEN LET textHeight == Num(FontSize(element.width))
             textWidth == MeasureTextWidth(element.text, FontSize(element.width))
             s == element.startPoint
             e == element.endPoint
         IN  IF e.x # s.x \/ e.y # s.y
             THEN [x |-> s.x, y |-> Sub(s.y, textHeight),
                   width |-> Sub(e.x, s.x),
                   height |-> Sub(e.y, Sub(s.y, textHeight))]
             ELSE [x |-> s.x, y |-> Sub(s.y, textHeight),
                   width |-> textWidth, height |-> textHeight]
    ELSE LET s == element.startPoint
             e == element.endPoint
         IN  [x |-> Min2(s.x, e.x), y |-> Min2(s.y, e.y),
              width |-> AbsN(Sub(e.x, s.x)), height |-> AbsN(Sub(e.y, s.y))]

HandlePadding == 8       \* padding of getResizeHandle
HandleHitSize == 20      \* handleSize of getResizeHandle
HandleOrder == <<"nw", "ne", "sw", "se">>

HandleCentre(b, h) ==
    LET pad == Num(HandlePadding)
    IN  [x |-> IF h \in {"nw", "sw"} THEN Sub(b.x, pad)
               ELSE Add(Add(b.x, b.width), pad),
         y |-> IF h \in {"nw", "ne"} THEN Sub(b.y, pad)
               ELSE Add(Add(b.y, b.height), pad)]

InHandle(x, y, b, h) ==
    LET c == HandleCentre(b, h)
        half == Frac(HandleHitSize, 2)
    IN  /\ Ge(x, Sub(c.x, half)) /\ Le(x, Add(c.x, half))
        /\ Ge(y, Sub(c.y, half)) /\ Le(y, Add(c.y, half))

\* getResizeHandle: the first handle in the order nw, ne, sw, se whose hit
\* box contains (x, y), or NoHandle
getResizeHandleLastHit(x, y, element) ==
    LET b == BoundsOf(element)
        hits == {i \in 1..4 : InHandle(x, y, b, HandleOrder[i])}
    IN  IF hits = {} THEN NoHandle
        ELSE HandleOrder[CHOOSE i \in hits : \A j \in hits : i >= j]

getResizeHandle(x, y, element) ==
    LET b == BoundsOf(element)
        hits == {i \in 1..4 : InHandle(x, y, b, HandleOrder[i])}
    IN  IF hits = {} THEN NoHandle
        ELSE HandleOrder[CHOOSE i \in hits : \A j \in hits : i <= j]

-----------------------------------------------------------------------------
(* Hit tests.                                                              *)

Range(q) == {q[i] : i \in 1..Len(q)}

\* strokeWidth * 2.5
Margin(sw) == Frac(sw * 5, 2)

\* Math.sqrt(dx * dx + dy * dy) < m, for m >= 0
DistLt(dx, dy, m) == Lt(Add(Mul(dx, dx), Mul(dy, dy)), Mul(m, m))

\* param of the code: dot / lenSq, or -1 for a segment of length 0
Param(dot, lenSq) == IF lenSq # Num(0) THEN Div(dot, lenSq) ELSE Num(-1)

\* (xx, yy) of the code: p1 if param < 0, p2 if param > 1, else the point
\* at param along the segment
Along(p1, p2, param) ==
    IF Lt(param, Num(0)) THEN [x |-> p1.x, y |-> p1.y]
    ELSE IF Gt(param, Num(1)) THEN [x |-> p2.x, y |-> p2.y]
    ELSE [x |-> Add(p1.x, Mul(param, Sub(p2.x, p1.x))),
          y |-> Add(p1.y, Mul(param, Sub(p2.y, p1.y)))]

\* param from A = x - x1, B = y - y1, C = x2 - x1, D = y2 - y1
ParamOf(A, B, C, D) ==
    Param(Add(Mul(A, C), Mul(B, D)), Add(Mul(C, C), Mul(D, D)))

\* the point of segment p1-p2 nearest to (x, y), as the code computes it
Nearest(x, y, p1, p2) ==
    Along(p1, p2, ParamOf(Sub(x, p1.x), Sub(y, p1.y),
                          Sub(p2.x, p1.x), Sub(p2.y, p1.y)))

\* distance from (x, y) to the point n is below m
DistToLt(x, y, n, m) == DistLt(Sub(x, n.x), Sub(y, n.y), m)

\* distance from (x, y) to segment p1-p2 is below m
NearSegment(x, y, p1, p2, m) == DistToLt(x, y, Nearest(x, y, p1, p2), m)

isPointNearStroke(x, y, strokePoints, sw) ==
    \E i \in 1..(Len(strokePoints) - 1) :
        NearSegment(x, y, strokePoints[i], strokePoints[i + 1], Margin(sw))

\* floor of the square root of a natural number
RECURSIVE ISqrtFrom(_, _)
ISqrtFrom(n, r) == IF (r + 1) * (r + 1) > n THEN r ELSE ISqrtFrom(n, r + 1)
RECURSIVE ISqrt(_)
ISqrt(n) == IF n < 4 THEN ISqrtFrom(n, 0)
            ELSE LET h == 2 * ISqrt(n \div 4) IN ISqrtFrom(n, h)

\* Math.sqrt of a finite non-negative number, to two decimal places
Sqrt(a) == Frac(ISqrt((a[1] \div a[2]) * 10000
                      + ((a[1] % a[2]) * 10000) \div a[2]), 100)

\* a finite number rounded to the nearest quarter
Quarter(a) == Frac((4 * a[1] + a[2] \div 2) \div a[2], 4)

Sqrt3 == Frac(433, 250)    \* 2 * Math.cos(Math.PI / 6)
HeadLength == 20             \* headLength of the arrow head

\* (cos, sin) of Math.atan2(D, C) for a vector (C, D) of length len;
\* atan2(0, 0) is 0
Direction(C, D, len) ==
    IF len = Num(0) THEN [cos |-> Num(1), sin |-> Num(0)]
    ELSE [cos |-> Div(C, len), sin |-> Div(D, len)]

\* the end of a head line of length HeadLength drawn back from endPoint at
\* the angle whose cosine and sine are given, to a quarter pixel
HeadTip(endPoint, cosine, sine) ==
    [x |-> Quarter(Sub(endPoint.x, Mul(Num(HeadLength), cosine))),
     y |-> Quarter(Sub(endPoint.y, Mul(Num(HeadLength), sine)))]

\* the head tips for the shaft direction dir: angle - PI/6 and angle + PI/6
HeadTips(endPoint, dir) ==
    <<HeadTip(endPoint,
              Mul(Frac(1, 2), Add(Mul(Sqrt3, dir.cos), dir.sin)),
              Mul(Frac(1, 2), Sub(Mul(Sqrt3, dir.sin), dir.cos))),
      HeadTip(endPoint,
              Mul(Frac(1, 2), Sub(Mul(Sqrt3, dir.cos), dir.sin)),
              Mul(Frac(1, 2), Add(Mul(Sqrt3, dir.sin), dir.cos)))>>

\* Math.sqrt(C * C + D * D), to two decimals
Hypot(C, D) == Sqrt(Add(Mul(C, C), Mul(D, D)))

ShaftDirection(C, D) == Direction(C, D, Hypot(C, D))

\* the two free ends of the arrow head (arrowPoint1, arrowPoint2)
ArrowHead(startPoint, endPoint) ==
    HeadTips(endPoint, ShaftDirection(Sub(endPoint.x, startPoint.x),
                                      Sub(endPoint.y, startPoint.y)))

\* some edge i -> i+1 (cyclically) of the polygon is nearer than m
NearPolygon(x, y, pts, m) ==
    \E i \in 1..Len(pts) :
        NearSegment(x, y, pts[i], pts[(i % Len(pts)) + 1], m)

NearSquare(x, y, s, e, m) ==
    LET left == Min2(s.x, e.x)
        right == Max2(s.x, e.x)
        top == Min2(s.y, e.y)
        bottom == Max2(s.y, e.y)
        nearHorizontal ==
            /\ Ge(y, Sub(top, m)) /\ Le(y, Add(bottom, m))
            /\ (Le(AbsN(Sub(x, left)), m) \/ Le(AbsN(Sub(x, right)), m))
        nearVertical ==
            /\ Ge(x, Sub(left, m)) /\ Le(x, Add(right, m))
            /\ (Le(AbsN(Sub(y, top)), m) \/ Le(AbsN(Sub(y, bottom)), m))
    IN  nearHorizontal \/ nearVertical

NearTriangle(x, y, s, e, m) ==
    LET midX == Add(s.x, Div(Sub(e.x, s.x), Num(2)))
    IN  NearPolygon(x, y, <<[x |-> midX, y |-> s.y], [x |-> e.x, y |-> e.y],
                            [x |-> s.x, y |-> e.y]>>, m)

NearArrow(x, y, s, e, m) ==
    \/ NearSegment(x, y, s, e, m)
    \/ \E tip \in Range(ArrowHead(s, e)) : DistToLt(x, y, tip, m)

\* Math.abs(normalizedDist - 1) * Math.min(radiusX, radiusY) < margin, where
\* normalizedDist is the square root of q
NearCircle(x, y, s, e, m) ==
    LET centerX == Div(Add(s.x, e.x), Num(2))
        centerY == Div(Add(s.y, e.y), Num(2))
        radiusX == Div(AbsN(Sub(e.x, s.x)), Num(2))
        radiusY == Div(AbsN(Sub(e.y, s.y)), Num(2))
        dx == Div(Sub(x, centerX), radiusX)
        dy == Div(Sub(y, centerY), radiusY)
        q == Add(Mul(dx, dx), Mul(dy, dy))
        r == Min2(radiusX, radiusY)
        t == Div(m, r)
        lo == Sub(Num(1), t)
        hi == Add(Num(1), t)
    IN  \* r = 0 makes q infinite or NaN and the product NaN: no hit
        /\ IsFinite(q) /\ Gt(r, Num(0))
        /\ Lt(q, Mul(hi, hi))
        /\ (Lt(lo, Num(0)) \/ Gt(q, Mul(lo, lo)))

NearDiamond(x, y, s, e, m) ==
    LET centerX == Div(Add(s.x, e.x), Num(2))
        centerY == Div(Add(s.y, e.y), Num(2))
    IN  NearPolygon(x, y, <<[x |-> centerX, y |-> s.y], [x |-> e.x, y |-> centerY],
                            [x |-> centerX, y |-> e.y], [x |-> s.x, y |-> centerY]>>, m)

NearText(x, y, shape, m) ==
    /\ shape.text # NoText /\ shape.text # ""
    /\ LET s == shape.startPoint
           e == shape.endPoint
           textHeight == Num(FontSize(shape.width))
           textWidth == MeasureTextWidth(shape.text, FontSize(shape.width))
           resized == e.x # s.x \/ e.y # s.y
           left == s.x
           top == Sub(s.y, textHeight)
           right == IF resized THEN e.x ELSE Add(s.x, textWidth)
           bottom == IF resized THEN e.y ELSE s.y
       IN  /\ Ge(x, Sub(left, m)) /\ Le(x, Add(right, m))
           /\ Ge(y, Sub(top, m)) /\ Le(y, Add(bottom, m))

\* isPointNearShape; sw is the stroke width currently set in the toolbar
isPointNearShape(x, y, shape, sw) ==
    LET s == shape.startPoint
        e == shape.endPoint
        margin == Margin(sw)
    IN  CASE shape.type = "square" -> NearSquare(x, y, s, e, margin)
          [] shape.type = "triangle" -> NearTriangle(x, y, s, e, margin)
          [] shape.type = "arrow" -> NearArrow(x, y, s, e, margin)
          [] shape.type = "circle" -> NearCircle(x, y, s, e, margin)
          [] shape.type = "diamond" -> NearDiamond(x, y, s, e, margin)
          [] shape.type = "text" -> NearText(x, y, shape, margin)
          [] OTHER -> FALSE

\* doLineSegmentsIntersect
doLineSegmentsIntersect(p1, p2, p3, p4) ==
    LET denominator == Sub(Mul(Sub(p4.y, p3.y), Sub(p2.x, p1.x)),
                           Mul(Sub(p4.x, p3.x), Sub(p2.y, p1.y)))
        ua == Div(Sub(Mul(Sub(p4.x, p3.x), Sub(p1.y, p3.y)),
                      Mul(Sub(p4.y, p3.y), Sub(p1.x, p3.x))), denominator)
        ub == Div(Sub(Mul(Sub(p2.x, p1.x), Sub(p1.y, p3.y)),
                      Mul(Sub(p2.y, p1.y), Sub(p1.x, p3.x))), denominator)
    IN  IF denominator = Num(0) THEN FALSE
        ELSE /\ Ge(ua, Num(0)) /\ Le(ua, Num(1))
             /\ Ge(ub, Num(0)) /\ Le(ub, Num(1))

-----------------------------------------------------------------------------
(* Pointer, keyboard and toolbar events.                                   *)

RectLeft == 0        \* left of the container's bounding rectangle
RectTop == 0         \* top of the container's bounding rectangle
Pressure == Frac(1, 2)   \* e.pressure of a pressed mouse button

Tools == {"none", "square", "triangle", "arrow", "diamond", "circle",
          "select", "text"}
Brushes == {"normal", "rough"}
Widths == {3, 1}
Texts == {"", "a"}

Spend(k) == budget[k] > 0 /\ budget' = [budget EXCEPT ![k] = @ - 1]

\* getPointerPosition: client coordinates to world coordinates
getPointerPosition(clientX, clientY, z, p) ==
    Point(Div(Sub(Sub(Num(clientX), Num(RectLeft)), p.x), z),
          Div(Sub(Sub(Num(clientY), Num(RectTop)), p.y), z),
          Pressure)

\* Math.random().toString(36).substr(2, 9): a string no earlier call returned
FreshId == nextId + 1

\* index of the topmost element of coll (highest index) accepted by Hit, or 0
MaxIndex(S) == IF S = {} THEN 0 ELSE CHOOSE i \in S : \A j \in S : j <= i

Topmost(coll, Hit(_)) == MaxIndex({i \in 1..Len(coll) : Hit(coll[i])})

handleKeyDown ==
    /\ Spend("key")
    /\ gesture' = Interrupted
    /\ isPanning' = TRUE
    /\ ev' = Event("keyDown", 0, 0, 0, "Space")
    /\ UNCHANGED <<viewVars, viewLog, lastPanPoint, gestureVars, textInput,
                   toolVars, sceneVars>>

handleKeyUp ==
    /\ Spend("key")
    /\ gesture' = Interrupted
    /\ isPanning' = FALSE
    /\ lastPanPoint' = Null
    /\ ev' = Event("keyUp", 0, 0, 0, "Space")
    /\ UNCHANGED <<viewVars, viewLog, gestureVars, textInput, toolVars,
                   sceneVars>>

\* the branch the select tool's pointer-down takes, with handle the resize
\* handle of the selected element under the pointer, si and ki the topmost
\* Shape and Stroke under the pointer (0 for none)
SelectBranchStrokeFirst(handle, si, ki) ==
    IF handle # NoHandle THEN "resize"
    ELSE IF ki # 0 THEN "selectStroke"
    ELSE IF si # 0 THEN "selectShape"
    ELSE "clear"

SelectBranch(handle, si, ki) ==
    IF handle # NoHandle THEN "resize"
    ELSE IF si # 0 THEN "selectShape"
    ELSE IF ki # 0 THEN "selectStroke"
    ELSE "clear"

\* the branch of handlePointerDown that acts: its tests in their order
DownBranchEraseFirst(panning, tool, eraseMode, handle, si, ki) ==
    IF panning THEN "pan"
    ELSE IF eraseMode THEN "erase"
    ELSE IF tool = "text" THEN "text"
    ELSE IF tool = "select" THEN SelectBranch(handle, si, ki)
    ELSE IF tool # "none" THEN "shape"
    ELSE "freehand"

DownBranch(panning, tool, eraseMode, handle, si, ki) ==
    IF panning THEN "pan"
    ELSE IF tool = "text" THEN "text"
    ELSE IF eraseMode THEN "erase"
    ELSE IF tool = "select" THEN SelectBranch(handle, si, ki)
    ELSE IF tool # "none" THEN "shape"
    ELSE "freehand"

handlePointerDown ==
    /\ Spend("down")
    /\ \E c \in ClientPts :
        LET point == getPointerPosition(c[1], c[2], zoom, pan)
            element == SelectedIn(selectedElement, shapes, strokes)
            handle == IF element = Null THEN NoHandle
                      ELSE getResizeHandle(point.x, point.y, element)
            HitShape(sh) == isPointNearShape(point.x, point.y, sh, strokeWidth)
            HitStroke(st) == isPointNearStroke(point.x, point.y, st.points, strokeWidth)
            si == Topmost(shapes, HitShape)
            ki == Topmost(strokes, HitStroke)
        IN
        \E branch \in {DownBranch(isPanning, shapeType, isEraseMode, handle,
                                   si, ki)} :
        /\ ev' = Event("pointerDown", c[1], c[2], 0, branch)
        /\ gesture' = IF gesture.kind = "none"
                         /\ branch \in {"freehand", "erase", "shape"}
                      THEN Gesture(branch, <<point>>)
                      ELSE IF gesture.kind = "none"
                              /\ branch \in {"selectShape", "selectStroke"}
                      THEN DragGesture(point, shapes, strokes)
                      ELSE Gesture("other", <<>>)
        /\ CASE branch = "pan" ->
               /\ lastPanPoint' = [x |-> c[1], y |-> c[2]]
               /\ UNCHANGED <<gestureVars, textInput, selectedElement, nextId>>
             [] branch = "text" ->
               /\ textInput' = [x |-> point.x, y |-> point.y, isActive |-> TRUE]
               /\ UNCHANGED <<lastPanPoint, gestureVars, selectedElement, nextId>>
             [] branch \in {"erase", "freehand"} ->
               /\ currentPoints' = <<point>>
               /\ isDrawing' = TRUE
               /\ UNCHANGED <<lastPanPoint, currentShape, isDragging, isResizing,
                              dragStart, resizeHandle, hoverHandle, textInput,
                              selectedElement, nextId>>
             [] branch = "resize" ->
               /\ isResizing' = TRUE
               /\ resizeHandle' = handle
               /\ dragStart' = point
               /\ UNCHANGED <<lastPanPoint, isDrawing, currentPoints,
                              currentShape, isDragging, hoverHandle,
                              textInput, selectedElement, nextId>>
             [] branch \in {"selectShape", "selectStroke"} ->
               /\ selectedElement' =
                    IF branch = "selectShape"
                    THEN [type |-> "shape", id |-> shapes[si].id]
                    ELSE [type |-> "stroke", id |-> strokes[ki].id]
               /\ isDragging' = TRUE
               /\ dragStart' = point
               /\ UNCHANGED <<lastPanPoint, isDrawing, currentPoints,
                              currentShape, isResizing, resizeHandle,
                              hoverHandle, textInput, nextId>>
             [] branch = "clear" ->
               /\ selectedElement' = Null
               /\ UNCHANGED <<lastPanPoint, gestureVars, textInput, nextId>>
             [] branch = "shape" ->
               /\ currentShape' = Shape(shapeType, point, point, color,
                                        strokeWidth, FreshId, NoText, TRUE)
               /\ nextId' = nextId + 1
               /\ isDrawing' = TRUE
               /\ UNCHANGED <<lastPanPoint, currentPoints, isDragging,
                              isResizing, dragStart, resizeHandle, hoverHandle,
                              textInput, selectedElement>>
    /\ UNCHANGED <<viewVars, viewLog, isPanning, toolVars, strokes, shapes,
                   created>>

DragShapeStartOnly(shape, dx, dy) ==
    [shape EXCEPT
        !.startPoint = Point(Add(shape.startPoint.x, dx),
                             Add(shape.startPoint.y, dy), NoPressure),
        !.shared = FALSE]

DragShape(shape, dx, dy) ==
    [shape EXCEPT
        !.startPoint = Point(Add(shape.startPoint.x, dx),
                             Add(shape.startPoint.y, dy), NoPressure),
        !.endPoint = Point(Add(shape.endPoint.x, dx),
                           Add(shape.endPoint.y, dy), NoPressure),
        !.shared = FALSE]

DragStrokeNewId(stroke, dx, dy) ==
    [stroke EXCEPT
        !.points = [i \in 1..Len(stroke.points) |->
                      Point(Add(stroke.points[i].x, dx),
                            Add(stroke.points[i].y, dy),
                            stroke.points[i].pressure)],
        !.id = 0]

DragStroke(stroke, dx, dy) ==
    [stroke EXCEPT
        !.points = [i \in 1..Len(stroke.points) |->
                      Point(Add(stroke.points[i].x, dx),
                            Add(stroke.points[i].y, dy),
                            stroke.points[i].pressure)]]

Includes(handle, letter) ==
    CASE letter = "n" -> handle \in {"nw", "ne"}
      [] letter = "s" -> handle \in {"sw", "se"}
      [] letter = "w" -> handle \in {"nw", "sw"}
      [] letter = "e" -> handle \in {"ne", "se"}

\* a Shape resized with the given handle to the pointer position: the
\* assignments are made to the anchor objects themselves, so when both
\* fields hold the same object every assignment shows in both
ResizeShape(shape, handle, point) ==
    IF shape.shared
    THEN LET o == [shape.startPoint EXCEPT !.x = point.x, !.y = point.y]
         IN  [shape EXCEPT !.startPoint = o, !.endPoint = o]
    ELSE [shape EXCEPT
            !.startPoint = [@ EXCEPT
                !.y = IF Includes(handle, "n") THEN point.y ELSE @,
                !.x = IF Includes(handle, "w") THEN point.x ELSE @],
            !.endPoint = [@ EXCEPT
                !.y = IF Includes(handle, "s") THEN point.y ELSE @,
                !.x = IF Includes(handle, "e") THEN point.x ELSE @]]

ResizeStrokeFromOldOrigin(stroke, handle, point) ==
    LET minX == MinOf(Xs(stroke.points))
        maxX == MaxOf(Xs(stroke.points))
        minY == MinOf(Ys(stroke.points))
        maxY == MaxOf(Ys(stroke.points))
        newWidth == IF Includes(handle, "e") THEN Sub(point.x, minX)
                    ELSE IF Includes(handle, "w") THEN Sub(maxX, point.x)
                    ELSE Sub(maxX, minX)
        newX == minX
        newHeight == IF Includes(handle, "s") THEN Sub(point.y, minY)
                     ELSE IF Includes(handle, "n") THEN Sub(maxY, point.y)
                     ELSE Sub(maxY, minY)
        newY == IF ~Includes(handle, "s") /\ Includes(handle, "n")
                THEN point.y ELSE minY
    IN  [stroke EXCEPT
            !.points = [i \in 1..Len(stroke.points) |->
                LET pt == stroke.points[i]
                    relativeX == Div(Sub(pt.x, minX), Sub(maxX, minX))
                    relativeY == Div(Sub(pt.y, minY), Sub(maxY, minY))
                IN  Point(Add(newX, Mul(relativeX, newWidth)),
                          Add(newY, Mul(relativeY, newHeight)),
                          pt.pressure)]]

ResizeStroke(stroke, handle, point) ==
    LET minX == MinOf(Xs(stroke.points))
        maxX == MaxOf(Xs(stroke.points))
        minY == MinOf(Ys(stroke.points))
        maxY == MaxOf(Ys(stroke.points))
        newWidth == IF Includes(handle, "e") THEN Sub(point.x, minX)
                    ELSE IF Includes(handle, "w") THEN Sub(maxX, point.x)
                    ELSE Sub(maxX, minX)
        newX == IF ~Includes(handle, "e") /\ Includes(handle, "w")
                THEN point.x ELSE minX
        newHeight == IF Includes(handle, "s") THEN Sub(point.y, minY)
                     ELSE IF Includes(handle, "n") THEN Sub(maxY, point.y)
                     ELSE Sub(maxY, minY)
        newY == IF ~Includes(handle, "s") /\ Includes(handle, "n")
                THEN point.y ELSE minY
    IN  [stroke EXCEPT
            !.points = [i \in 1..Len(stroke.points) |->
                LET pt == stroke.points[i]
                    relativeX == Div(Sub(pt.x, minX), Sub(maxX, minX))
                    relativeY == Div(Sub(pt.y, minY), Sub(maxY, minY))
                IN  Point(Add(newX, Mul(relativeX, newWidth)),
                          Add(newY, Mul(relativeY, newHeight)),
                          pt.pressure)]]

\* coll.map(el => el.id === id ? F(el) : el)
MapId(coll, id, F(_)) ==
    [i \in 1..Len(coll) |-> IF coll[i].id = id THEN F(coll[i]) ELSE coll[i]]

\* setCurrentShape({...currentShape, endPoint: point})
StretchedFromPoint(shape, point) ==
    [shape EXCEPT !.startPoint = point, !.shared = FALSE]

Stretched(shape, point) == [shape EXCEPT !.endPoint = point, !.shared = FALSE]

\* the branch of handlePointerMove that acts, from the conditions of its
\* if / else-if chain
MoveBranch(panCase, dragCase, resizeCase, shapeCase, drawCase) ==
    IF panCase THEN "pan"
    ELSE IF dragCase THEN "drag"
    ELSE IF resizeCase THEN "resize"
    ELSE IF shapeCase THEN "shape"
    ELSE IF drawCase THEN "draw"
    ELSE "none"

handlePointerMove ==
    /\ Spend("move")
    /\ \E c \in ClientPts :
        LET point == getPointerPosition(c[1], c[2], zoom, pan)
            element == SelectedIn(selectedElement, shapes, strokes)
            panCase == isPanning /\ lastPanPoint # Null
            hoverCase == /\ shapeType = "select" /\ selectedElement # Null
                         /\ ~isDragging /\ ~isResizing /\ element # Null
            dragCase == isDragging /\ selectedElement # Null /\ dragStart # Null
            resizeCase == /\ ~dragCase /\ isResizing /\ selectedElement # Null
                          /\ dragStart # Null /\ resizeHandle # NoHandle
            drawCase == ~dragCase /\ ~resizeCase /\ isDrawing
            shapeCase == /\ drawCase /\ shapeType # "none" /\ ~isEraseMode
                         /\ currentShape # Null
            dx == Sub(point.x, dragStart.x)
            dy == Sub(point.y, dragStart.y)
            Dragged(el) == IF IsStroke(el) THEN DragStroke(el, dx, dy)
                           ELSE DragShape(el, dx, dy)
            Resized(el) == IF IsStroke(el) THEN ResizeStroke(el, resizeHandle, point)
                           ELSE ResizeShape(el, resizeHandle, point)
        IN
        /\ ev' = Event("pointerMove", c[1], c[2], 0,
                       MoveBranch(panCase, dragCase, resizeCase, shapeCase,
                                  drawCase))
        /\ gesture' = IF gesture.kind \in {"freehand", "erase", "shape", "drag"}
                      THEN [gesture EXCEPT !.pts = Append(@, point)]
                      ELSE [gesture EXCEPT !.ended = "none"]
        /\ IF panCase THEN
               /\ pan' = [x |-> Add(pan.x, Num(c[1] - lastPanPoint.x)),
                          y |-> Add(pan.y, Num(c[2] - lastPanPoint.y))]
               /\ lastPanPoint' = [x |-> c[1], y |-> c[2]]
               /\ viewLog' = Logged("dragPan", c[1], c[2], 0)
               /\ UNCHANGED <<gestureVars, strokes, shapes>>
           ELSE
               /\ UNCHANGED <<pan, lastPanPoint, viewLog>>
               /\ hoverHandle' = IF hoverCase
                                 THEN getResizeHandle(point.x, point.y, element)
                                 ELSE hoverHandle
               /\ shapes' =
                    IF dragCase /\ selectedElement.type = "shape"
                    THEN MapId(shapes, selectedElement.id, Dragged)
                    ELSE IF resizeCase /\ selectedElement.type = "shape"
                    THEN MapId(shapes, selectedElement.id, Resized)
                    ELSE shapes
               /\ strokes' =
                    IF dragCase /\ selectedElement.type # "shape"
                    THEN MapId(strokes, selectedElement.id, Dragged)
                    ELSE IF resizeCase /\ selectedElement.type # "shape"
                    THEN MapId(strokes, selectedElement.id, Resized)
                    ELSE strokes
               /\ dragStart' = IF dragCase \/ resizeCase THEN point ELSE dragStart
               /\ currentShape' =
                    IF shapeCase
                    THEN Stretched(currentShape, point)
                    ELSE currentShape
               /\ IF drawCase /\ ~shapeCase
                  THEN currentPoints' = Append(currentPoints, point)
                  ELSE UNCHANGED currentPoints
               /\ UNCHANGED <<isDrawing, isDragging, isResizing, resizeHandle>>
    /\ UNCHANGED <<zoom, isPanning, textInput, toolVars, selectedElement,
                   nextId, created>>

\* coll.filter(Keep)
Filter(coll, Keep(_)) == SelectSeq(coll, Keep)

\* coll.filter(...) seen from the elements it drops: coll without the
\* elements at the indices in removed
KeptFromSecond(coll, removed) ==
    LET F[i \in 0..Len(coll)] ==
            IF i <= 1 THEN <<>>
            ELSE IF i \in removed THEN F[i - 1]
            ELSE Append(F[i - 1], coll[i])
    IN  F[Len(coll)]

Kept(coll, removed) ==
    LET F[i \in 0..Len(coll)] ==
            IF i = 0 THEN <<>>
            ELSE IF i \in removed THEN F[i - 1]
            ELSE Append(F[i - 1], coll[i])
    IN  F[Len(coll)]

\* the stroke filter of handlePointerUp: TRUE when the eraser path removes
\* the stroke
EraserHitsStroke(stroke, path, sw) ==
    \E i \in 1..(Len(stroke.points) - 1), j \in 1..(Len(path) - 1) :
        LET strokeSegStart == stroke.points[i]
            strokeSegEnd == stroke.points[i + 1]
            eraseSegStart == path[j]
            eraseSegEnd == path[j + 1]
        IN  \/ DistLt(Sub(strokeSegStart.x, eraseSegStart.x),
                      Sub(strokeSegStart.y, eraseSegStart.y), Num(sw * 2))
            \/ DistLt(Sub(strokeSegEnd.x, eraseSegStart.x),
                      Sub(strokeSegEnd.y, eraseSegStart.y), Num(sw * 2))
            \/ doLineSegmentsIntersect(strokeSegStart, strokeSegEnd,
                                       eraseSegStart, eraseSegEnd)

\* the shape filter of handlePointerUp: TRUE when the eraser path removes
\* the shape
EraserHitsShapeAfterFirst(shape, path, sw) ==
    \E j \in 2..Len(path) : isPointNearShape(path[j].x, path[j].y, shape, sw)

EraserHitsShape(shape, path, sw) ==
    \E j \in 1..Len(path) : isPointNearShape(path[j].x, path[j].y, shape, sw)

\* the part of the creation log whose elements are still in the collections
Surviving(log, ss, ks) ==
    LET Alive(entry) == IF entry.type = "shape"
                        THEN \E i \in 1..Len(ss) : ss[i].id = entry.id
                        ELSE \E i \in 1..Len(ks) : ks[i].id = entry.id
    IN  Filter(log, Alive)

\* the last branch of handlePointerUp: the in-progress points become a Stroke
StrokeCommittedFromOnePoint(points, eraseMode, tool) ==
    ~eraseMode /\ Len(points) > 0 /\ tool # "select"

StrokeCommitted(points, eraseMode, tool) ==
    ~eraseMode /\ Len(points) > 1 /\ tool # "select"

\* the branch of the if / else-if chain that handlePointerUp takes
UpBranch ==
    IF currentShape # Null /\ ~isEraseMode /\ shapeType # "select"
    THEN "shape"
    ELSE IF isEraseMode /\ Len(currentPoints) > 0
    THEN "erase"
    ELSE IF StrokeCommitted(currentPoints, isEraseMode, shapeType)
    THEN "stroke"
    ELSE "none"

\* the six resets at the head of handlePointerUp
ModesClearedButAnchor ==
    /\ isDrawing' = FALSE
    /\ isDragging' = FALSE
    /\ isResizing' = FALSE
    /\ dragStart' = dragStart
    /\ resizeHandle' = NoHandle
    /\ hoverHandle' = NoHandle

ModesCleared ==
    /\ isDrawing' = FALSE
    /\ isDragging' = FALSE
    /\ isResizing' = FALSE
    /\ dragStart' = Null
    /\ resizeHandle' = NoHandle
    /\ hoverHandle' = NoHandle

\* the state changes of handlePointerUp
PointerUpEffect ==
    LET commitShape == UpBranch = "shape"
        erase == UpBranch = "erase"
        commitStroke == UpBranch = "stroke"
        remainingStrokes ==
            Kept(strokes, {i \in 1..Len(strokes) :
                    EraserHitsStroke(strokes[i], currentPoints, strokeWidth)})
        remainingShapes ==
            Kept(shapes, {i \in 1..Len(shapes) :
                    EraserHitsShape(shapes[i], currentPoints, strokeWidth)})
        newStroke == Stroke(currentPoints, color, strokeWidth, brushType, FreshId)
    IN  /\ ModesCleared
        /\ shapes' = IF commitShape THEN Append(shapes, currentShape)
                     ELSE IF erase THEN remainingShapes
                     ELSE shapes
        /\ currentShape' = IF commitShape THEN Null ELSE currentShape
        /\ strokes' = IF erase THEN remainingStrokes
                      ELSE IF commitStroke THEN Append(strokes, newStroke)
                      ELSE strokes
        /\ nextId' = IF commitStroke THEN nextId + 1 ELSE nextId
        /\ created' =
             IF commitShape
             THEN Append(created, [type |-> "shape", id |-> currentShape.id])
             ELSE IF commitStroke
             THEN Append(created, [type |-> "stroke", id |-> FreshId])
             ELSE IF erase
             THEN Surviving(created, remainingShapes, remainingStrokes)
             ELSE created
        /\ currentPoints' = <<>>
        /\ gesture' = [NoGesture EXCEPT !.ended = gesture.kind]
        /\ UNCHANGED <<viewVars, viewLog, isPanning, lastPanPoint, textInput,
                       toolVars, selectedElement>>

\* the number of elements the erase branch removed
Erased(remainingStrokes, remainingShapes) ==
    IF UpBranch = "erase"
    THEN (Len(strokes) - Len(remainingStrokes))
         + (Len(shapes) - Len(remainingShapes))
    ELSE 0

handlePointerUp ==
    /\ PointerUpEffect
    /\ ev' = Event("pointerUp", 0, 0, Erased(strokes', shapes'), UpBranch)
    /\ UNCHANGED budget

\* handlePointerUp(e) followed by setHoverHandle(null)
handlePointerOutHoverOnly ==
    /\ Spend("out")
    /\ hoverHandle' = NoHandle
    /\ gesture' = [NoGesture EXCEPT !.ended = gesture.kind]
    /\ ev' = Event("pointerOut", 0, 0, 0, UpBranch)
    /\ UNCHANGED <<viewVars, viewLog, isPanning, lastPanPoint, isDrawing,
                   currentPoints, currentShape, isDragging, isResizing,
                   dragStart, resizeHandle, textInput, toolVars, sceneVars>>

handlePointerOut ==
    /\ Spend("out")
    /\ PointerUpEffect
    /\ ev' = Event("pointerOut", 0, 0, Erased(strokes', shapes'), UpBranch)

\* shapes after saveText(text), from the collection the closure captured
SavedTextAlways(coll, entry, text) ==
    IF entry # Null
    THEN Append(coll, Shape("text", Point(entry.x, entry.y, NoPressure),
                            Point(entry.x, entry.y, NoPressure), color, strokeWidth,
                            FreshId, text, FALSE))
    ELSE coll

SavedText(coll, entry, text) ==
    IF text # "" /\ entry # Null
    THEN Append(coll, Shape("text", Point(entry.x, entry.y, NoPressure),
                            Point(entry.x, entry.y, NoPressure), color, strokeWidth,
                            FreshId, text, FALSE))
    ELSE coll

\* saveText(text) as a step: Enter in the text entry, or the entry's blur
saveText ==
    /\ textInput # Null
    /\ \E text \in Texts :
        /\ shapes' = SavedText(shapes, textInput, text)
        /\ nextId' = IF text # "" THEN nextId + 1 ELSE nextId
        /\ created' = IF text # ""
                      THEN Append(created, [type |-> "shape", id |-> FreshId])
                      ELSE created
        /\ ev' = Event("saveText", 0, 0, 0, text)
    /\ textInput' = Null
    /\ gesture' = Interrupted
    /\ UNCHANGED <<viewVars, viewLog, isPanning, lastPanPoint, gestureVars,
                   toolVars, strokes, selectedElement, budget>>

\* the effect on shapeType and textInput saves the open text entry: the
\* entry is active and the tool t is not the text tool
SavesEntry(t) == textInput # Null /\ textInput.isActive /\ t # "text"

\* a change of the active tool to t (and of the brush to b), followed by the
\* effect that saves an open text entry once the tool is not text
ChangeToolOnly(t, b) ==
    /\ shapeType' = t
    /\ gesture' = Interrupted
    /\ brushType' = b
    /\ UNCHANGED <<shapes, nextId, created, textInput>>
    /\ UNCHANGED <<viewVars, viewLog, isPanning, lastPanPoint, gestureVars,
                   isEraseMode, strokeWidth, color, strokes, selectedElement>>

ChangeTool(t, b) ==
    /\ shapeType' = t
    /\ gesture' = Interrupted
    /\ brushType' = b
    /\ IF SavesEntry(t)
       THEN \E text \in Texts :
              /\ shapes' = SavedText(shapes, textInput, text)
              /\ nextId' = IF text # "" THEN nextId + 1 ELSE nextId
              /\ created' = IF text # ""
                            THEN Append(created, [type |-> "shape", id |-> FreshId])
                            ELSE created
              /\ textInput' = Null
       ELSE UNCHANGED <<shapes, nextId, created, textInput>>
    /\ UNCHANGED <<viewVars, viewLog, isPanning, lastPanPoint, gestureVars,
                   isEraseMode, strokeWidth, color, strokes, selectedElement>>

\* a tool button of the toolbar (disabled in erase mode): selects its tool,
\* or the freehand tool when its tool is already active
onShapeTypeChange ==
    /\ Spend("tool")
    /\ ~isEraseMode
    /\ \E t \in (Tools \ {"none"}) \cap budget.tools :
        /\ ChangeTool(IF shapeType = t THEN "none" ELSE t, brushType)
        /\ ev' = Event("tool", 0, 0,
                       IF SavesEntry(IF shapeType = t THEN "none" ELSE t)
                       THEN 1 ELSE 0, t)

\* an entry of the brush menu: sets the brush and the freehand tool
onBrushTypeChange ==
    /\ Spend("brush")
    /\ \E b \in Brushes :
        /\ ChangeTool("none", b)
        /\ ev' = Event("brush", 0, 0, IF SavesEntry("none") THEN 1 ELSE 0, b)

onToggleEraseMode ==
    /\ Spend("erase")
    /\ gesture' = Interrupted
    /\ isEraseMode' = ~isEraseMode
    /\ ev' = Event("erase", 0, 0, 0, "")
    /\ UNCHANGED <<viewVars, viewLog, isPanning, lastPanPoint, gestureVars,
                   textInput, shapeType, strokeWidth, color, brushType,
                   sceneVars>>

onStrokeWidthChangeRestyling ==
    /\ Spend("width")
    /\ gesture' = Interrupted
    /\ \E w \in Widths \ {strokeWidth} :
        /\ strokeWidth' = w
        /\ strokes' = [i \in 1..Len(strokes) |-> [strokes[i] EXCEPT !.width = w]]
        /\ ev' = Event("width", 0, 0, w, "")
    /\ UNCHANGED <<viewVars, viewLog, isPanning, lastPanPoint, gestureVars,
                   textInput, shapeType, isEraseMode, color, brushType,
                   shapes, selectedElement, nextId, created>>

onStrokeWidthChange ==
    /\ Spend("width")
    /\ gesture' = Interrupted
    /\ \E w \in Widths \ {strokeWidth} :
        /\ strokeWidth' = w
        /\ ev' = Event("width", 0, 0, w, "")
    /\ UNCHANGED <<viewVars, viewLog, isPanning, lastPanPoint, gestureVars,
                   textInput, shapeType, isEraseMode, color, brushType,
                   sceneVars>>

\* slice(0, -1)
DropLast(coll) == IF coll = <<>> THEN <<>> ELSE SubSeq(coll, 1, Len(coll) - 1)

UndoneInBoth(ss, ks) == [shapes |-> DropLast(ss), strokes |-> DropLast(ks)]

\* [shapes, strokes] after handleUndo
Undone(ss, ks) ==
    IF Len(ss) > 0 THEN [shapes |-> DropLast(ss), strokes |-> ks]
    ELSE [shapes |-> ss, strokes |-> DropLast(ks)]

handleUndo ==
    /\ Spend("undo")
    /\ gesture' = Interrupted
    /\ LET u == Undone(shapes, strokes)
       IN  /\ shapes' = u.shapes
           /\ strokes' = u.strokes
           /\ created' = Surviving(created, u.shapes, u.strokes)
    /\ ev' = Event("undo", 0, 0, 0, "")
    /\ UNCHANGED <<viewVars, viewLog, isPanning, lastPanPoint, gestureVars,
                   textInput, toolVars, selectedElement, nextId>>

-----------------------------------------------------------------------------
(* Construction.                                                           *)

NoEvent == Event("init", 0, 0, 0, "")

InitState ==
    /\ zoom = Num(1)
    /\ pan = [x |-> Num(0), y |-> Num(0)]
    /\ isPanning = FALSE
    /\ lastPanPoint = Null
    /\ isDrawing = FALSE
    /\ currentPoints = <<>>
    /\ currentShape = Null
    /\ textInput = Null
    /\ selectedElement = Null
    /\ isDragging = FALSE
    /\ isResizing = FALSE
    /\ dragStart = Null
    /\ resizeHandle = NoHandle
    /\ hoverHandle = NoHandle
    /\ shapeType = "none"
    /\ isEraseMode = FALSE
    /\ strokeWidth = 3
    /\ color = "#000000"
    /\ brushType = "normal"
    /\ strokes = <<>>
    /\ shapes = <<>>
    /\ nextId = 0
    /\ ev = NoEvent
    /\ created = <<>>
    /\ viewLog = <<>>
    /\ gesture = NoGesture

\* the events a behaviour may still take, by kind, and the tool buttons it
\* may press
Caps(view, key, down, move, out, tool, brush, erase, width, undo, tools) ==
    [view |-> view, key |-> key, down |-> down, move |-> move, out |-> out,
     tool |-> tool, brush |-> brush, erase |-> erase, width |-> width,
     undo |-> undo, tools |-> tools]

NoBudget == Caps(0, 0, 0, 0, 0, 0, 0, 0, 0, 0, {})

\* the viewport after n presses of the zoom-in button from construction
RECURSIVE ZoomedIn(_)
ZoomedIn(n) ==
    IF n = 0 THEN [zoom |-> Num(1), pan |-> [x |-> Num(0), y |-> Num(0)]]
    ELSE CHOOSE r \in {ZoomInView(v.zoom, v.pan) : v \in {ZoomedIn(n - 1)}} : TRUE

\* the viewport after n presses of the zoom-out button from construction
RECURSIVE ZoomedOut(_)
ZoomedOut(n) ==
    IF n = 0 THEN [zoom |-> Num(1), pan |-> [x |-> Num(0), y |-> Num(0)]]
    ELSE CHOOSE r \in {ZoomOutView(v.zoom, v.pan) : v \in {ZoomedOut(n - 1)}} : TRUE

\* SpecView starts from the viewports the zoom buttons reach from
\* construction (zoom 0.1, 0.2, ..., 3.0) and handles viewport events only.
InitView ==
    /\ \E n \in 0..20, out \in BOOLEAN :
         /\ out => n <= 9
         /\ LET v == IF out THEN ZoomedOut(n) ELSE ZoomedIn(n)
            IN  zoom = v.zoom /\ pan = v.pan
    /\ isPanning = FALSE
    /\ lastPanPoint = Null
    /\ isDrawing = FALSE
    /\ currentPoints = <<>>
    /\ currentShape = Null
    /\ textInput = Null
    /\ selectedElement = Null
    /\ isDragging = FALSE
    /\ isResizing = FALSE
    /\ dragStart = Null
    /\ resizeHandle = NoHandle
    /\ hoverHandle = NoHandle
    /\ shapeType = "none"
    /\ isEraseMode = FALSE
    /\ strokeWidth = 3
    /\ color = "#000000"
    /\ brushType = "normal"
    /\ strokes = <<>>
    /\ shapes = <<>>
    /\ nextId = 0
    /\ ev = NoEvent
    /\ created = <<>>
    /\ viewLog = <<>>
    /\ gesture = NoGesture
    /\ budget = [NoBudget EXCEPT !.view = MaxViewSteps]

NextView == handleZoomIn \/ handleZoomOut \/ handleWheel

SpecView == InitView /\ [][NextView]_vars

\* SpecBatch handles wheel events only, one or two of them per render.
NextBatch == handleWheel \/ handleWheelBatch

SpecBatch == InitView /\ [][NextBatch]_vars

-----------------------------------------------------------------------------
(* The canvas from construction.                                           *)

MaxMoves == 2        \* pointer-move events of a session
MaxUndos == 1        \* undo clicks of a session

ShapeKinds == {"square", "triangle", "arrow", "diamond", "circle"}

\* The sessions explored. Each bounds the events of a behaviour by kind
\* (view, key, down, move, out, tool, brush, erase, width, undo) and names
\* the tool buttons it presses.
Sessions ==
    \* freehand drawing, selecting, dragging, resizing, erasing, undo
    {Caps(0, 0, 3, MaxMoves, 0, 1, 0, 1, 0, MaxUndos, {"select"})}
    \* one shape or text tool next to the freehand and select tools
    \cup {Caps(0, 0, 2, MaxMoves, 0, 2, 0, 0, 0, MaxUndos, {"select", k}) :
            k \in ShapeKinds \cup {"text"}}
    \* a tool change in the middle of a shape gesture
    \cup {Caps(0, 0, 3, 1, 0, 2, 1, 0, 0, 0, {"select", "square"})}
    \* two shapes and a drag or resize gesture of two moves on one of them
    \cup {Caps(0, 0, 3, 2, 0, 2, 0, 0, 0, 0, {"select", "square"})}
    \* the text tool with erase mode and Space
    \cup {Caps(0, 1, 1, 0, 0, 1, 0, 1, 0, 0, {"text"})}
    \* Space panning around pointer gestures
    \cup {Caps(0, 2, 2, MaxMoves, 0, 0, 0, 0, 0, 0, {})}
    \* a viewport event around drawing and selecting
    \cup {Caps(1, 0, 2, 1, 0, 1, 0, 0, 0, 0, {"select"})}
    \* brush, stroke width and the pointer leaving the canvas
    \cup {Caps(0, 0, 2, MaxMoves, 1, 0, 1, 0, 1, 0, {})}

Init ==
    /\ InitState
    /\ budget \in Sessions

Next ==
    \/ handleZoomIn
    \/ handleZoomOut
    \/ handleWheel
    \/ handleKeyDown
    \/ handleKeyUp
    \/ handlePointerDown
    \/ handlePointerMove
    \/ handlePointerUp
    \/ handlePointerOut
    \/ saveText
    \/ onShapeTypeChange
    \/ onBrushTypeChange
    \/ onToggleEraseMode
    \/ onStrokeWidthChange
    \/ handleUndo

Spec == Init /\ [][Next]_vars

-----------------------------------------------------------------------------
(* Claims about the viewport, checked under SpecView.                      *)

IsZoomEvent(l) == l.type \in {"zoomIn", "zoomOut", "wheelZoom"}
\* TRUE when the logged event asked for a larger zoom
ZoomsIn(l) == l.type = "zoomIn" \/ (l.type = "wheelZoom" /\ -l.d > 0)
\* the screen point the logged zoom event keeps fixed
FixedPoint(l) ==
    IF l.type = "wheelZoom" THEN [x |-> Num(l.x), y |-> Num(l.y)]
    ELSE [x |-> CenterX, y |-> CenterY]
\* the world point shown at screen point s by the viewport (z, p)
WorldOf(s, z, p) == [x |-> Div(Sub(s.x, p.x), z), y |-> Div(Sub(s.y, p.y), z)]

\* C1: after any sequence of Ctrl-wheel events and zoom-in / zoom-out button
\* presses the zoom value lies in [0.1, 3.0].
C1_ZoomClamped == Le(ZoomMin, zoom) /\ Le(zoom, ZoomMax)

\* a zoom-in request that found zoom at 3.0, and a zoom-out request that
\* found it at 0.1, have been handled
C1_Witness ==
    /\ Len(viewLog) = 2
    /\ viewLog[1].zoom = ZoomMax /\ ZoomsIn(viewLog[1]) /\ IsZoomEvent(viewLog[1])
    /\ viewLog[2].zoom = ZoomMax /\ viewLog[2].type = "zoomIn"
    /\ zoom = ZoomMax

\* C7: a Ctrl-wheel zoom step with the cursor at S leaves the world point
\* under S unchanged: (S - p1)/z1 = (S - p0)/z0 on both axes.
C7_WheelKeepsCursorPoint ==
    (viewLog # <<>> /\ viewLog[1].type = "wheelZoom") =>
        LET e == viewLog[1]
            S == FixedPoint(e)
        IN  WorldOf(S, zoom, pan) = WorldOf(S, e.zoom, e.pan)

\* a Ctrl-wheel step away from the origin changed both zoom and pan
C7_Witness ==
    /\ viewLog # <<>>
    /\ viewLog[1].type = "wheelZoom"
    /\ viewLog[1].x = ContainerWidth
    /\ zoom # viewLog[1].zoom
    /\ pan.x # viewLog[1].pan.x /\ pan.y # viewLog[1].pan.y

\* the last two viewport events are a zoom-in and a zoom-out (in either
\* order) about the same screen point
InversePair ==
    /\ Len(viewLog) = 2
    /\ IsZoomEvent(viewLog[1]) /\ IsZoomEvent(viewLog[2])
    /\ ZoomsIn(viewLog[1]) # ZoomsIn(viewLog[2])
    /\ FixedPoint(viewLog[1]) = FixedPoint(viewLog[2])

\* C8 as stated: a zoom step followed by the opposite step about the same
\* screen point restores zoom and pan, for every starting zoom in [0.1, 3.0].
C8_RoundTripEverywhere ==
    InversePair => (zoom = viewLog[2].zoom /\ pan = viewLog[2].pan)

\* C8 amended: the round trip restores zoom and pan whenever the first of the
\* two steps was not stopped by the clamp (it changed zoom by 0.1).
C8_RoundTripUnclamped ==
    (InversePair /\ viewLog[1].zoom # viewLog[2].zoom) =>
        (zoom = viewLog[2].zoom /\ pan = viewLog[2].pan)

\* a wheel zoom-out then zoom-in away from the centre has been undone
C8_Witness ==
    /\ InversePair
    /\ viewLog[1].zoom # viewLog[2].zoom
    /\ viewLog[1].type = "wheelZoom" /\ viewLog[1].x = ContainerWidth
    /\ ZoomsIn(viewLog[1])
    /\ viewLog[1].pan # pan
    /\ zoom = viewLog[2].zoom /\ pan = viewLog[2].pan

-----------------------------------------------------------------------------
(* Claims about the interaction modes and the collections, checked under   *)
(* Spec.                                                                   *)

IsPointerUp(e) == e.type \in {"pointerUp", "pointerOut"}
Ids(coll) == [i \in 1..Len(coll) |-> coll[i].id]
Distinct(q) == \A i, j \in 1..Len(q) : q[i] = q[j] => i = j

\* the interaction modes in progress
ActiveModes ==
    {m \in {"drawing", "dragging", "resizing", "panning", "erasing"} :
        CASE m = "drawing" -> isDrawing /\ ~isEraseMode
          [] m = "erasing" -> isDrawing /\ isEraseMode
          [] m = "dragging" -> isDragging
          [] m = "resizing" -> isResizing
          [] m = "panning" -> isPanning}

\* C2: in every reachable state at most one of drawing, dragging, resizing,
\* panning and erasing is active.
C2_ModesExclusive == Cardinality(ActiveModes) <= 1

\* C3: in every reachable state a Selection names an element that exists in
\* the collection of its type, also after undo or an erase gesture.
C3_SelectionExists ==
    selectedElement # Null =>
        SelectedIn(selectedElement, shapes, strokes) # Null

\* C4: the pointer-up of a freehand gesture (freehand tool, erase mode off:
\* pointer-down, n pointer-moves, pointer-up) commits nothing when only the
\* pointer-down point was recorded, and otherwise appends exactly one Stroke
\* whose points are the pointer-down point followed by every pointer-move
\* point in order.
C4_FreehandCommit ==
    [][(IsPointerUp(ev') /\ gesture.kind = "freehand") =>
        IF Len(gesture.pts) >= 2
        THEN /\ Len(strokes') = Len(strokes) + 1
             /\ SubSeq(strokes', 1, Len(strokes)) = strokes
             /\ strokes'[Len(strokes')].points = gesture.pts
        ELSE strokes' = strokes]_vars

\* C5: in every reachable state every Stroke of the Stroke collection has
\* at least 2 points.
C5_StrokesHaveTwoPoints ==
    \A i \in 1..Len(strokes) : Len(strokes[i].points) >= 2

\* a committed Stroke that a resize gesture has rescaled
C5_Witness ==
    /\ isResizing /\ ev.type = "pointerMove"
    /\ selectedElement # Null /\ selectedElement.type = "stroke"
    /\ SelectedIn(selectedElement, shapes, strokes) # Null

\* new is old with elements removed, or old with one new id appended
IdsKept(old, new) ==
    \/ /\ Range(new) \subseteq Range(old)
       /\ new = SelectSeq(old, LAMBDA id : id \in Range(new))
    \/ /\ Len(new) = Len(old) + 1
       /\ SubSeq(new, 1, Len(old)) = old
       /\ new[Len(new)] \notin Range(old)

C9_UndoStep ==
    [][ev'.type = "undo" =>
        /\ IF Len(shapes) > 0
           THEN /\ shapes' = SubSeq(shapes, 1, Len(shapes) - 1)
                /\ strokes' = strokes
           ELSE IF Len(strokes) > 0
           THEN /\ strokes' = SubSeq(strokes, 1, Len(strokes) - 1)
                /\ shapes' = shapes
           ELSE shapes' = shapes /\ strokes' = strokes
        /\ Len(strokes') + Len(shapes') =
             IF Len(strokes) + Len(shapes) > 0
             THEN Len(strokes) + Len(shapes) - 1 ELSE 0]_vars

\* an undo has removed the second of two committed elements
C9_Witness ==
    /\ ev.type = "undo"
    /\ Len(created) = 1 /\ created[1].id = 1
    /\ Len(strokes) + Len(shapes) = 1

\* C10: an undo removes the element committed last, whichever collection it
\* is in.
C10_UndoRemovesNewest ==
    [][(ev'.type = "undo" /\ created # <<>>) =>
        created' = SubSeq(created, 1, Len(created) - 1)]_vars

\* Claims about erasing, checked under Spec

\* the eraser path of the gesture in progress removes no element
ErasePathMisses ==
    /\ \A i \in 1..Len(strokes) :
           ~EraserHitsStroke(strokes[i], currentPoints, strokeWidth)
    /\ \A i \in 1..Len(shapes) :
           ~EraserHitsShape(shapes[i], currentPoints, strokeWidth)

\* C11: an erase gesture whose path touches no element leaves the strokes
\* and the shapes as they were, element for element and in the same order
C11_EraseMissKeepsAll ==
    [][(IsPointerUp(ev') /\ ev'.s = "erase" /\ ErasePathMisses)
       => (strokes' = strokes /\ shapes' = shapes)]_vars

\* an erase gesture has ended and removed nothing from a non-empty drawing
C11_Witness ==
    /\ IsPointerUp(ev) /\ gesture.ended = "erase" /\ ev.s = "erase" /\ ev.d = 0
    /\ Len(strokes) + Len(shapes) > 0

\* the point pt lies on the segment p1-p2
OnSegment(pt, p1, p2) == Nearest(pt.x, pt.y, p1, p2) = [x |-> pt.x, y |-> pt.y]

\* a sample of the eraser path lies on the stroke, or a segment of the path
\* crosses a segment of the stroke
PassesThrough(path, stroke) ==
    \E i \in 1..(Len(stroke.points) - 1) :
        \/ \E j \in 1..Len(path) :
              OnSegment(path[j], stroke.points[i], stroke.points[i + 1])
        \/ \E j \in 1..(Len(path) - 1) :
              doLineSegmentsIntersect(stroke.points[i], stroke.points[i + 1],
                                      path[j], path[j + 1])

\* C12: an erase gesture whose path passes through a point lying on a
\* committed Stroke removes that Stroke, whatever the direction of the pass
\* (crossing it, running along it, or a single click on it)
C12_ErasePassRemovesStroke ==
    [][(IsPointerUp(ev') /\ gesture.kind = "erase" /\ ev'.s = "erase")
       => \A i \in 1..Len(strokes) :
             PassesThrough(gesture.pts, strokes[i])
             => \A k \in 1..Len(strokes') : strokes'[k].id # strokes[i].id]_vars

\* Claims about resizing, checked under Spec

\* the bounding box of a Stroke's points
BoxOf(stroke) ==
    [minX |-> MinOf(Xs(stroke.points)), maxX |-> MaxOf(Xs(stroke.points)),
     minY |-> MinOf(Ys(stroke.points)), maxY |-> MaxOf(Ys(stroke.points))]

\* origin and size of the box that a corner handle at the pointer gives
NewBoxOf(box, handle, point) ==
    [x |-> IF Includes(handle, "w") THEN point.x ELSE box.minX,
     y |-> IF Includes(handle, "n") THEN point.y ELSE box.minY,
     w |-> IF Includes(handle, "e") THEN Sub(point.x, box.minX)
           ELSE Sub(box.maxX, point.x),
     h |-> IF Includes(handle, "s") THEN Sub(point.y, box.minY)
           ELSE Sub(box.maxY, point.y)]

\* the step is a pointer-move that resizes the selected Stroke, whose box has
\* non-zero width and height
StrokeResizeStep ==
    /\ ev'.type = "pointerMove" /\ ev'.s = "resize"
    /\ selectedElement.type = "stroke"
    /\ Find(strokes, selectedElement.id) # Null
    /\ Lt(Num(0), Sub(BoxOf(Find(strokes, selectedElement.id)).maxX,
                      BoxOf(Find(strokes, selectedElement.id)).minX))
    /\ Lt(Num(0), Sub(BoxOf(Find(strokes, selectedElement.id)).maxY,
                      BoxOf(Find(strokes, selectedElement.id)).minY))

\* number, order and pressure of the points are kept
SamePointsUpToPlace(old, new) ==
    /\ Len(new) = Len(old)
    /\ \A i \in 1..Len(old) : new[i].pressure = old[i].pressure

\* (p'.x - newX)/w1 == (p.x - minX)/w0 and the same in y, for every point
Proportional(old, new, box, nb) ==
    \A i \in 1..Len(old) :
        /\ Eq(Div(Sub(new[i].x, nb.x), nb.w),
              Div(Sub(old[i].x, box.minX), Sub(box.maxX, box.minX)))
        /\ Eq(Div(Sub(new[i].y, nb.y), nb.h),
              Div(Sub(old[i].y, box.minY), Sub(box.maxY, box.minY)))

\* the same with the new size multiplied out, which also says where the
\* points go when the new box has no width or no height
ProportionalScaled(old, new, box, nb) ==
    \A i \in 1..Len(old) :
        /\ Eq(Sub(new[i].x, nb.x),
              Mul(Div(Sub(old[i].x, box.minX), Sub(box.maxX, box.minX)), nb.w))
        /\ Eq(Sub(new[i].y, nb.y),
              Mul(Div(Sub(old[i].y, box.minY), Sub(box.maxY, box.minY)), nb.h))

ResizeKeeps(Related(_, _, _, _), old, new, handle, point) ==
    /\ SamePointsUpToPlace(old.points, new.points)
    /\ Related(old.points, new.points, BoxOf(old),
               NewBoxOf(BoxOf(old), handle, point))

\* C13 as stated: one resize step of a selected Stroke whose box has non-zero
\* width and height keeps every point's relative offset within the box,
\* (p'.x - newX)/w1 == (p.x - minX)/w0 and the same in y, and keeps the
\* number, order and pressure of the points
C13_ResizeProportionalAlways ==
    [][StrokeResizeStep
       => ResizeKeeps(Proportional, Find(strokes, selectedElement.id),
                      Find(strokes', selectedElement.id), resizeHandle,
                      getPointerPosition(ev'.x, ev'.y, zoom, pan))]_vars

\* C13 amended: the relative offsets are kept in the multiplied form
\* p'.x - newX == ((p.x - minX)/w0) * w1 (same in y), which is the quotient
\* form whenever w1 and h1 are non-zero and puts every point on newX (newY)
\* when w1 (h1) is zero; number, order and pressure of the points are kept
C13_ResizeProportional ==
    [][StrokeResizeStep
       => /\ ResizeKeeps(ProportionalScaled, Find(strokes, selectedElement.id),
                         Find(strokes', selectedElement.id), resizeHandle,
                         getPointerPosition(ev'.x, ev'.y, zoom, pan))
          /\ \/ NewBoxOf(BoxOf(Find(strokes, selectedElement.id)), resizeHandle,
                         getPointerPosition(ev'.x, ev'.y, zoom, pan)).w = Num(0)
             \/ NewBoxOf(BoxOf(Find(strokes, selectedElement.id)), resizeHandle,
                         getPointerPosition(ev'.x, ev'.y, zoom, pan)).h = Num(0)
             \/ ResizeKeeps(Proportional, Find(strokes, selectedElement.id),
                            Find(strokes', selectedElement.id), resizeHandle,
                            getPointerPosition(ev'.x, ev'.y, zoom, pan))]_vars

\* a resize step has just given the selected Stroke a box with width and
\* height
C13_Witness ==
    /\ ev.type = "pointerMove" /\ ev.s = "resize"
    /\ selectedElement.type = "stroke"
    /\ Find(strokes, selectedElement.id) # Null
    /\ Lt(Num(0), Sub(BoxOf(Find(strokes, selectedElement.id)).maxX,
                      BoxOf(Find(strokes, selectedElement.id)).minX))
    /\ Lt(Num(0), Sub(BoxOf(Find(strokes, selectedElement.id)).maxY,
                      BoxOf(Find(strokes, selectedElement.id)).minY))

\* Claims about shape gestures, checked under Spec

\* C14: the pointer-up of a shape gesture (tool square, triangle, arrow,
\* diamond or circle, erase mode off: pointer-down at A, moves ending at B)
\* appends exactly one Shape, of the tool's kind, with startPoint A and
\* endPoint B (A when there was no move), and commits no Stroke
C14_ShapeGestureCommits ==
    [][(IsPointerUp(ev') /\ gesture.kind = "shape")
       => /\ shapeType \in ShapeKinds
          /\ Len(shapes') = Len(shapes) + 1
          /\ SubSeq(shapes', 1, Len(shapes)) = shapes
          /\ shapes'[Len(shapes')].type = shapeType
          /\ shapes'[Len(shapes')].startPoint = gesture.pts[1]
          /\ shapes'[Len(shapes')].endPoint = gesture.pts[Len(gesture.pts)]
          /\ strokes' = strokes]_vars

\* a shape gesture with a move has ended and its Shape is the newest one
C14_Witness ==
    /\ IsPointerUp(ev) /\ gesture.ended = "shape" /\ shapes # <<>>
    /\ shapes[Len(shapes)].startPoint # shapes[Len(shapes)].endPoint

\* Claims about the Selection and the tools, checked under Spec

\* C15: whenever the active tool changes, the Selection is empty afterwards
C15_ToolChangeClearsSelection ==
    [][shapeType' # shapeType => selectedElement' = Null]_vars

-----------------------------------------------------------------------------
(* Hit testing of one Shape, as a function of the Shape, the stroke width   *)
(* of the toolbar and the tested point.                                     *)

HitWidths == {1, 3}      \* values of the stroke width slider (1 .. 20)
HitAnchors == ClientPts  \* world points a gesture can give as anchors

Mid(p, q) == [x |-> Div(Add(p.x, q.x), Num(2)), y |-> Div(Add(p.y, q.y), Num(2))]
XY(x, y) == [x |-> x, y |-> y]

\* the line segments drawShape strokes for a Shape that is no circle and no
\* text
DrawnSegments(shape) ==
    LET s == shape.startPoint
        e == shape.endPoint
        c == Mid(s, e)
        midX == Add(s.x, Div(Sub(e.x, s.x), Num(2)))
    IN  CASE shape.type = "square" ->
               <<<<XY(s.x, s.y), XY(e.x, s.y)>>, <<XY(e.x, s.y), XY(e.x, e.y)>>,
                 <<XY(e.x, e.y), XY(s.x, e.y)>>, <<XY(s.x, e.y), XY(s.x, s.y)>>>>
          [] shape.type = "triangle" ->
               <<<<XY(midX, s.y), XY(e.x, e.y)>>, <<XY(e.x, e.y), XY(s.x, e.y)>>,
                 <<XY(s.x, e.y), XY(midX, s.y)>>>>
          [] shape.type = "arrow" ->
               <<<<XY(s.x, s.y), XY(e.x, e.y)>>,
                 <<XY(e.x, e.y), ArrowHead(s, e)[1]>>,
                 <<XY(e.x, e.y), ArrowHead(s, e)[2]>>>>
          [] shape.type = "diamond" ->
               <<<<XY(c.x, s.y), XY(e.x, c.y)>>, <<XY(e.x, c.y), XY(c.x, e.y)>>,
                 <<XY(c.x, e.y), XY(s.x, c.y)>>, <<XY(s.x, c.y), XY(c.x, s.y)>>>>
          [] OTHER -> <<>>

\* the two ends and the middle of every segment
SegmentSamples(segs) ==
    [i \in 1..(3 * Len(segs)) |->
        CASE (i - 1) % 3 = 0 -> segs[((i - 1) \div 3) + 1][1]
          [] (i - 1) % 3 = 1 -> Mid(segs[((i - 1) \div 3) + 1][1],
                                    segs[((i - 1) \div 3) + 1][2])
          [] OTHER -> segs[((i - 1) \div 3) + 1][2]]

\* the four points of the ellipse of drawShape that lie on its axes
EllipseSamples(s, e) ==
    <<XY(Sub(Mid(s, e).x, Div(AbsN(Sub(e.x, s.x)), Num(2))), Mid(s, e).y),
      XY(Add(Mid(s, e).x, Div(AbsN(Sub(e.x, s.x)), Num(2))), Mid(s, e).y),
      XY(Mid(s, e).x, Sub(Mid(s, e).y, Div(AbsN(Sub(e.y, s.y)), Num(2)))),
      XY(Mid(s, e).x, Add(Mid(s, e).y, Div(AbsN(Sub(e.y, s.y)), Num(2))))>>

\* points lying exactly on the drawn boundary of the Shape
BoundarySamples(shape) ==
    IF shape.type = "circle"
    THEN EllipseSamples(shape.startPoint, shape.endPoint)
    ELSE SegmentSamples(DrawnSegments(shape))

\* the point with the given number: 0 is the centre of the bounding box, i > 0
\* the i-th boundary sample
Probe(shape, i) ==
    IF i = 0 THEN Mid(shape.startPoint, shape.endPoint)
    ELSE BoundarySamples(shape)[i]

InitHit ==
    /\ zoom = Num(1)
    /\ pan = [x |-> Num(0), y |-> Num(0)]
    /\ isPanning = FALSE
    /\ lastPanPoint = Null
    /\ isDrawing = FALSE
    /\ currentPoints = <<>>
    /\ currentShape = Null
    /\ textInput = Null
    /\ selectedElement = Null
    /\ isDragging = FALSE
    /\ isResizing = FALSE
    /\ dragStart = Null
    /\ resizeHandle = NoHandle
    /\ hoverHandle = NoHandle
    /\ shapeType \in ShapeKinds
    /\ isEraseMode = FALSE
    /\ strokeWidth \in HitWidths
    /\ color = "#000000"
    /\ brushType = "normal"
    /\ strokes = <<>>
    /\ \E a \in HitAnchors, b \in HitAnchors :
         shapes = <<Shape(shapeType, Point(Num(a[1]), Num(a[2]), Pressure),
                          Point(Num(b[1]), Num(b[2]), Pressure), color, 3, 1,
                          NoText, FALSE)>>
    /\ nextId = 1
    /\ ev = NoEvent
    /\ created = <<[type |-> "shape", id |-> 1]>>
    /\ viewLog = <<>>
    /\ gesture = NoGesture
    /\ budget = NoBudget

\* isPointNearShape applied to the centre or to a boundary sample of the
\* Shape, with the stroke width of the toolbar
HitTest ==
    /\ \E i \in 0..Len(BoundarySamples(shapes[1])) :
         ev' = Event("hitTest", i, 0, 0,
                     IF isPointNearShape(Probe(shapes[1], i).x,
                                         Probe(shapes[1], i).y, shapes[1],
                                         strokeWidth)
                     THEN "hit" ELSE "miss")
    /\ UNCHANGED <<viewVars, viewLog, isPanning, lastPanPoint, gestureVars,
                   textInput, toolVars, sceneVars, budget, gesture>>

NextHit == HitTest

SpecHit == InitHit /\ [][NextHit]_vars

\* the Shape's bounding box has a width and a height
HasArea(shape) ==
    /\ shape.startPoint.x # shape.endPoint.x
    /\ shape.startPoint.y # shape.endPoint.y

\* the point c is farther than m from every point of the drawn boundary
FartherThan(c, shape, m) ==
    IF shape.type = "circle"
    THEN /\ Lt(m, Div(AbsN(Sub(shape.endPoint.x, shape.startPoint.x)), Num(2)))
         /\ Lt(m, Div(AbsN(Sub(shape.endPoint.y, shape.startPoint.y)), Num(2)))
    ELSE \A sg \in Range(DrawnSegments(shape)) :
            Lt(Mul(m, m),
               Add(Mul(Sub(c.x, Nearest(c.x, c.y, sg[1], sg[2]).x),
                       Sub(c.x, Nearest(c.x, c.y, sg[1], sg[2]).x)),
                   Mul(Sub(c.y, Nearest(c.x, c.y, sg[1], sg[2]).y),
                       Sub(c.y, Nearest(c.x, c.y, sg[1], sg[2]).y))))

\* C16: for every non-text Shape (here: with a bounding box that has a width
\* and a height) isPointNearShape is true for every point exactly on the
\* drawn boundary (rectangle, triangle and diamond edges, arrow shaft and
\* both arrow-head segments, ellipse perimeter) and false for the centre of
\* the bounding box when the centre is farther than the margin from the
\* boundary
C16_HitTestMatchesOutline ==
    (ev.type = "hitTest" /\ HasArea(shapes[1]))
    => IF ev.x = 0
       THEN FartherThan(Probe(shapes[1], 0), shapes[1], Margin(strokeWidth))
            => ev.s = "miss"
       ELSE ev.s = "hit"

\* Claims about what the handlers leave alone, checked under Spec

\* the step is a viewport operation: a Ctrl-wheel zoom, a wheel pan, a zoom
\* button, the pointer-down that anchors a Space-drag pan or one of its moves
ViewportStep ==
    \/ ev'.type \in {"zoomIn", "zoomOut", "wheelZoom", "wheelPan"}
    \/ ev'.type = "pointerDown" /\ isPanning
    \/ ev'.type = "pointerMove" /\ isPanning /\ lastPanPoint # Null

SameButPlace(old, new) ==
    /\ new.color = old.color /\ new.width = old.width
    /\ new.brushType = old.brushType /\ new.id = old.id
    /\ Len(new.points) = Len(old.points)

\* the step is a move of a drag or resize gesture on the selected Stroke id
MovesSelected(id) ==
    /\ ev'.type = "pointerMove" /\ ev'.s \in {"drag", "resize"}
    /\ selectedElement = [type |-> "stroke", id |-> id]

DownPoint == getPointerPosition(ev'.x, ev'.y, zoom, pan)

\* the resize handle of the selected element under the pointer, if any
DownHandle ==
    IF SelectedIn(selectedElement, shapes, strokes) = Null THEN NoHandle
    ELSE getResizeHandle(DownPoint.x, DownPoint.y,
                         SelectedIn(selectedElement, shapes, strokes))

ShapeUnder(i) ==
    isPointNearShape(DownPoint.x, DownPoint.y, shapes[i], strokeWidth)
StrokeUnder(i) ==
    isPointNearStroke(DownPoint.x, DownPoint.y, strokes[i].points, strokeWidth)

\* C19: pointer-down dispatches by strict priority and exactly one branch
\* takes effect: with Space held it only records the pan anchor; otherwise
\* the text tool opens a text entry at the world point of the click, also in
\* erase mode; otherwise erase mode seeds the eraser path with the point;
\* otherwise the select tool runs selection; otherwise a shape tool or the
\* freehand tool seeds the in-progress element
C19_PointerDownPriority ==
    [][ev'.type = "pointerDown" =>
        /\ UNCHANGED <<strokes, shapes>>
        /\ IF isPanning
           THEN /\ lastPanPoint' = [x |-> ev'.x, y |-> ev'.y]
                /\ UNCHANGED <<gestureVars, textInput, selectedElement>>
           ELSE IF shapeType = "text"
           THEN /\ textInput' = [x |-> DownPoint.x, y |-> DownPoint.y,
                                 isActive |-> TRUE]
                /\ UNCHANGED <<lastPanPoint, gestureVars, selectedElement>>
           ELSE IF isEraseMode
           THEN /\ currentPoints' = <<DownPoint>> /\ isDrawing'
                /\ UNCHANGED <<lastPanPoint, currentShape, isDragging,
                               isResizing, textInput, selectedElement>>
           ELSE IF shapeType = "select"
           THEN UNCHANGED <<lastPanPoint, isDrawing, currentPoints,
                            currentShape, textInput>>
           ELSE /\ isDrawing'
                /\ UNCHANGED <<lastPanPoint, isDragging, isResizing, textInput,
                               selectedElement>>
                /\ IF shapeType = "none"
                   THEN currentPoints' = <<DownPoint>> /\ UNCHANGED currentShape
                   ELSE /\ currentShape' # Null
                        /\ currentShape'.type = shapeType
                        /\ currentShape'.startPoint = DownPoint
                        /\ currentShape'.endPoint = DownPoint
                        /\ UNCHANGED currentPoints]_vars

\* a pointer-down with the text tool in erase mode has opened a text entry
\* and started no eraser path
C19_Witness ==
    /\ ev.type = "pointerDown" /\ shapeType = "text" /\ isEraseMode
    /\ ~isPanning /\ textInput # Null /\ currentPoints = <<>> /\ ~isDrawing

\* C20: with the select tool, a pointer-down (a) enters resizing with the hit
\* handle when the selected element exists and the point is in one of its
\* handle boxes, and keeps the Selection; (b) otherwise selects and drags
\* the Shape of highest index that isPointNearShape accepts, in preference
\* to any Stroke; (c) otherwise selects and drags the Stroke of highest index
\* that isPointNearStroke accepts; (d) otherwise clears the Selection and
\* enters no mode
C20_SelectDispatch ==
    [][(ev'.type = "pointerDown" /\ ~isPanning /\ ~isEraseMode
        /\ shapeType = "select") =>
        IF DownHandle # NoHandle
        THEN /\ isResizing' /\ resizeHandle' = DownHandle
             /\ UNCHANGED <<selectedElement, isDragging>>
        ELSE IF \E i \in 1..Len(shapes) : ShapeUnder(i)
        THEN /\ \E i \in 1..Len(shapes) :
                  /\ ShapeUnder(i)
                  /\ \A j \in (i + 1)..Len(shapes) : ~ShapeUnder(j)
                  /\ selectedElement' = [type |-> "shape", id |-> shapes[i].id]
             /\ isDragging' /\ UNCHANGED isResizing
        ELSE IF \E i \in 1..Len(strokes) : StrokeUnder(i)
        THEN /\ \E i \in 1..Len(strokes) :
                  /\ StrokeUnder(i)
                  /\ \A j \in (i + 1)..Len(strokes) : ~StrokeUnder(j)
                  /\ selectedElement' = [type |-> "stroke", id |-> strokes[i].id]
             /\ isDragging' /\ UNCHANGED isResizing
        ELSE selectedElement' = Null /\ UNCHANGED gestureVars]_vars

\* a pointer-down of the select tool has selected a Shape although a Stroke
\* lies under the pointer as well
C20_Witness ==
    /\ ev.type = "pointerDown" /\ ev.s = "selectShape" /\ shapeType = "select"
    /\ selectedElement # Null /\ selectedElement.type = "shape" /\ isDragging
    /\ \E i \in 1..Len(strokes) :
          isPointNearStroke(getPointerPosition(ev.x, ev.y, zoom, pan).x,
                            getPointerPosition(ev.x, ev.y, zoom, pan).y,
                            strokes[i].points, strokeWidth)

\* Claims about the end of a gesture, checked under Spec

\* C21: after every pointer-up, whatever the mode, the tool and the erase
\* setting, the drawing, dragging and resizing flags are false and the drag
\* anchor, the active resize handle and the hover handle are cleared
C21_PointerUpClearsModes ==
    IsPointerUp(ev)
    => /\ ~isDrawing /\ ~isDragging /\ ~isResizing
       /\ dragStart = Null /\ resizeHandle = NoHandle
       /\ hoverHandle = NoHandle

\* a pointer-up has ended a gesture of the select tool on a selected element
C21_Witness ==
    /\ ev.type = "pointerUp" /\ gesture.ended = "other"
    /\ shapeType = "select" /\ selectedElement # Null
    /\ ~isDragging /\ dragStart = Null

-----------------------------------------------------------------------------
\* Claims about dragging and resizing the selected element, checked under Spec

\* every coordinate of new is the coordinate of old plus (dx, dy), and
\* nothing else of the element differs
TranslatedBy(old, new, dx, dy) ==
    IF IsStroke(old)
    THEN /\ IsStroke(new) /\ SameButPlace(old, new)
         /\ \A i \in 1..Len(old.points) :
              /\ new.points[i].x = Add(old.points[i].x, dx)
              /\ new.points[i].y = Add(old.points[i].y, dy)
              /\ new.points[i].pressure = old.points[i].pressure
    ELSE /\ ~IsStroke(new)
         /\ new.startPoint.x = Add(old.startPoint.x, dx)
         /\ new.startPoint.y = Add(old.startPoint.y, dy)
         /\ new.endPoint.x = Add(old.endPoint.x, dx)
         /\ new.endPoint.y = Add(old.endPoint.y, dy)
         /\ Sub(new.endPoint.x, new.startPoint.x)
              = Sub(old.endPoint.x, old.startPoint.x)
         /\ Sub(new.endPoint.y, new.startPoint.y)
              = Sub(old.endPoint.y, old.startPoint.y)
         /\ new.type = old.type /\ new.color = old.color
         /\ new.width = old.width /\ new.id = old.id /\ new.text = old.text

\* coll is old with the element id translated by (dx, dy) in its place and
\* every other element as it was
OnlyTranslated(old, coll, id, dx, dy) ==
    /\ Len(coll) = Len(old)
    /\ \A i \in 1..Len(old) :
         IF old[i].id = id THEN TranslatedBy(old[i], coll[i], dx, dy)
         ELSE coll[i] = old[i]

\* C23: in a drag gesture on the selected element that went down at world
\* point A and whose last sample is B, every coordinate of the element is
\* its coordinate at the start plus B - A, its size is unchanged, and every
\* other element and the order of both collections are as at the start
C23_DragTranslatesByTotal ==
    gesture.kind = "drag" /\ selectedElement # Null =>
        LET A == gesture.pts[1]
            B == gesture.pts[Len(gesture.pts)]
            dx == Sub(B.x, A.x)
            dy == Sub(B.y, A.y)
        IN  /\ dragStart # Null /\ dragStart.x = B.x /\ dragStart.y = B.y
            /\ IF selectedElement.type = "shape"
               THEN /\ OnlyTranslated(gesture.origin.shapes, shapes,
                                      selectedElement.id, dx, dy)
                    /\ strokes = gesture.origin.strokes
               ELSE /\ OnlyTranslated(gesture.origin.strokes, strokes,
                                      selectedElement.id, dx, dy)
                    /\ shapes = gesture.origin.shapes

\* a drag of three samples that ends away from where it started, with a
\* second element in the scene
C23_Witness ==
    /\ gesture.kind = "drag" /\ Len(gesture.pts) = 3
    /\ gesture.pts[3] # gesture.pts[1] /\ gesture.pts[2] # gesture.pts[3]
    /\ gesture.pts[2] # gesture.pts[1]
    /\ ev.type = "pointerMove" /\ ev.s = "drag"
    /\ Len(shapes) + Len(strokes) >= 2

\* the component of a Shape that a letter of a handle names
Named(shape, letter) ==
    CASE letter = "n" -> shape.startPoint.y
      [] letter = "s" -> shape.endPoint.y
      [] letter = "w" -> shape.startPoint.x
      [] letter = "e" -> shape.endPoint.x

\* the pointer coordinate that a letter of a handle takes
PointerFor(letter, point) == IF letter \in {"n", "s"} THEN point.y ELSE point.x

\* new is old with exactly the components that handle names set to point
ResizedOnlyNamed(old, new, handle, point) ==
    /\ \A letter \in {"n", "s", "w", "e"} :
         Named(new, letter) = IF Includes(handle, letter)
                              THEN PointerFor(letter, point)
                              ELSE Named(old, letter)
    /\ new.type = old.type /\ new.color = old.color /\ new.width = old.width
    /\ new.text = old.text /\ new.id = old.id

\* the step is a pointer-move that resizes the selected Shape
ShapeResizeStep ==
    /\ ev'.type = "pointerMove" /\ ev'.s = "resize"
    /\ selectedElement.type = "shape"
    /\ Find(shapes, selectedElement.id) # Null

\* C24: a resize move on the selected Shape with handle h sets only the
\* components that h names to the pointer position ('n' startPoint.y, 's'
\* endPoint.y, 'w' startPoint.x, 'e' endPoint.x) and leaves the two other
\* components, the kind, color, width, text and id of the Shape, every other
\* Shape and every Stroke unchanged
C24_ResizeSetsNamedOnly ==
    [][ShapeResizeStep =>
        /\ Len(shapes') = Len(shapes)
        /\ \A i \in 1..Len(shapes) :
             IF shapes[i].id = selectedElement.id
             THEN ResizedOnlyNamed(shapes[i], shapes'[i], resizeHandle,
                                   DownPoint)
             ELSE shapes'[i] = shapes[i]
        /\ strokes' = strokes]_vars

\* the same for Shapes whose two anchors are two objects
C24_ResizeSetsNamedOnlyUnshared ==
    [][ShapeResizeStep /\ ~Find(shapes, selectedElement.id).shared =>
        /\ Len(shapes') = Len(shapes)
        /\ \A i \in 1..Len(shapes) :
             IF shapes[i].id = selectedElement.id
             THEN ResizedOnlyNamed(shapes[i], shapes'[i], resizeHandle,
                                   DownPoint)
             ELSE shapes'[i] = shapes[i]
        /\ strokes' = strokes]_vars

-----------------------------------------------------------------------------
(* The end of an erase gesture, as a function of the committed elements,    *)
(* the stroke width of the toolbar and the eraser path: the behaviours      *)
(* start in the middle of an erase gesture and take the pointer-up.         *)

MaxEraseSamples == 3     \* samples of the eraser path of the gesture
EraseWidths == {1, 3}    \* values of the stroke width slider (1 .. 20)
\* pointer positions of the erase gesture: the client points, a point 5
\* pixels past the end of the segment (0,0)-(40,30), and its middle
ErasePts == ClientPts \cup {<<44, 33>>, <<20, 15>>}

WorldPt(c) == Point(Num(c[1]), Num(c[2]), Pressure)

\* the eraser paths: the point of the pointer-down and of every pointer-move
ErasePaths ==
    UNION {[1..n -> {WorldPt(c) : c \in ErasePts}] : n \in 1..MaxEraseSamples}

\* three Shapes drawn with the square, arrow and diamond tools, ids 0 .. 2
EraseShapes ==
    <<Shape("square", WorldPt(<<0, 0>>), WorldPt(<<40, 30>>), "#000000", 3, 0,
            NoText, FALSE),
      Shape("arrow", WorldPt(<<80, 0>>), WorldPt(<<40, 30>>), "#000000", 3, 1,
            NoText, FALSE),
      Shape("diamond", WorldPt(<<0, 0>>), WorldPt(<<40, 30>>), "#000000", 3, 2,
            NoText, FALSE)>>

InitErase ==
    /\ zoom = Num(1)
    /\ pan = [x |-> Num(0), y |-> Num(0)]
    /\ isPanning = FALSE
    /\ lastPanPoint = Null
    /\ isDrawing = TRUE
    /\ currentPoints \in ErasePaths
    /\ currentShape = Null
    /\ textInput = Null
    /\ selectedElement = Null
    /\ isDragging = FALSE
    /\ isResizing = FALSE
    /\ dragStart = Null
    /\ resizeHandle = NoHandle
    /\ hoverHandle = NoHandle
    /\ shapeType = "none"
    /\ isEraseMode = TRUE
    /\ strokeWidth \in EraseWidths
    /\ color = "#000000"
    /\ brushType = "normal"
    /\ \E n \in {0, 3} :
         /\ shapes = SubSeq(EraseShapes, 1, n)
         /\ \E a \in ClientPts, b \in ClientPts :
              strokes = <<Stroke(<<WorldPt(a), WorldPt(b)>>, color, 3,
                                 brushType, n)>>
         /\ nextId = n + 1
         /\ created = [i \in 1..(n + 1) |->
                         [type |-> IF i <= n THEN "shape" ELSE "stroke",
                          id |-> i - 1]]
    /\ ev = NoEvent
    /\ viewLog = <<>>
    /\ gesture = Gesture("erase", currentPoints)
    /\ budget = NoBudget

NextErase == handlePointerUp

SpecErase == InitErase /\ [][NextErase]_vars

\* some segment of the stroke has an endpoint within sw * 2 of an endpoint
\* of some segment of the eraser path, or intersects it
TouchesPath(stroke, path, sw) ==
    \E i \in 1..(Len(stroke.points) - 1), j \in 1..(Len(path) - 1) :
        \/ \E p \in {stroke.points[i], stroke.points[i + 1]},
              q \in {path[j], path[j + 1]} :
                DistLt(Sub(p.x, q.x), Sub(p.y, q.y), Num(sw * 2))
        \/ doLineSegmentsIntersect(stroke.points[i], stroke.points[i + 1],
                                   path[j], path[j + 1])

\* the element with this id has left the collection in the step
Removed(id, coll) == \A k \in 1..Len(coll) : coll[k].id # id

\* C25: on the pointer-up of an erase gesture a Stroke is removed exactly
\* when some segment of it has an endpoint within strokeWidth * 2 of an
\* endpoint of some segment of the eraser path (every sample of the path
\* counts, the last one included) or intersects some segment of the path
C25_EraseRemovesTouchedStrokes ==
    [][(IsPointerUp(ev') /\ ev'.s = "erase")
       => \A i \in 1..Len(strokes) :
             Removed(strokes[i].id, strokes')
             <=> TouchesPath(strokes[i], currentPoints, strokeWidth)]_vars

\* the eraser path of the step is not empty and erase mode is on
EraseGestureEnds ==
    IsPointerUp(ev') /\ isEraseMode /\ Len(currentPoints) >= 1

\* the elements of new are elements of old, in the order they have in old
InOrderOf(old, new) ==
    /\ \A k \in 1..Len(new) : \E i \in 1..Len(old) : new[k] = old[i]
    /\ \A k, l \in 1..Len(new) :
         k < l => \E i, j \in 1..Len(old) :
                     i < j /\ new[k] = old[i] /\ new[l] = old[j]

\* C26: on the pointer-up of an erase gesture with at least one sample a
\* Shape is removed exactly when isPointNearShape holds for it at some
\* sample of the eraser path (a path of one sample included), the remaining
\* Shapes keep their relative order, and the eraser path is empty afterwards
C26_EraseRemovesNearShapes ==
    [][EraseGestureEnds =>
        /\ \A i \in 1..Len(shapes) :
             Removed(shapes[i].id, shapes')
             <=> \E j \in 1..Len(currentPoints) :
                    isPointNearShape(currentPoints[j].x, currentPoints[j].y,
                                     shapes[i], strokeWidth)
        /\ InOrderOf(shapes, shapes')
        /\ currentPoints' = <<>>]_vars

\* an erase gesture has removed the second of three Shapes and kept the
\* Stroke
C26_Witness ==
    /\ ev.type = "pointerUp" /\ ev.s = "erase" /\ ev.d = 1
    /\ gesture.ended = "erase"
    /\ Ids(shapes) = <<0, 2>> /\ Len(strokes) = 1
    /\ currentPoints = <<>>

-----------------------------------------------------------------------------
\* Claims about the text entry, checked under Spec

\* shape is a text Shape at the anchor of entry, with the color and width of
\* the toolbar and the string text
TextShapeOf(shape, entry, text) ==
    /\ shape.type = "text" /\ shape.text = text
    /\ shape.startPoint.x = entry.x /\ shape.startPoint.y = entry.y
    /\ shape.endPoint.x = entry.x /\ shape.endPoint.y = entry.y
    /\ shape.color = color /\ shape.width = strokeWidth

\* the step appends exactly one text Shape made from entry and text
AppendsText(entry, text) ==
    /\ Len(shapes') = Len(shapes) + 1
    /\ SubSeq(shapes', 1, Len(shapes)) = shapes
    /\ TextShapeOf(shapes'[Len(shapes')], entry, text)

\* C27: with a text entry open, Enter or blur closes the entry and, when the
\* entered string is not empty, appends exactly one text Shape whose
\* startPoint and endPoint are the recorded anchor, with the current color
\* and width and the string; when the string is empty the entry is closed
\* and the shapes are unchanged
C27_SaveTextCommitsOrCloses ==
    [][(ev'.type = "saveText" /\ textInput # Null) =>
        /\ textInput' = Null
        /\ IF ev'.s # "" THEN AppendsText(textInput, ev'.s)
           ELSE shapes' = shapes]_vars

\* a text entry opened away from the origin has been saved with a string
C27_Witness ==
    /\ ev.type = "saveText" /\ ev.s = "a" /\ textInput = Null
    /\ shapes # <<>>
    /\ shapes[Len(shapes)].type = "text" /\ shapes[Len(shapes)].text = "a"
    /\ shapes[Len(shapes)].startPoint.x # Num(0)

\* C28: when the active tool changes away from text while a text entry is
\* open, the entry is committed (a text Shape is appended when its string is
\* not empty) and closed, and in no state after a step is a text entry open
\* while the active tool is not the text tool
C28_ToolChangeCommitsText ==
    [][/\ shapeType' # "text" => textInput' = Null
       /\ (shapeType' # shapeType /\ shapeType' # "text" /\ textInput # Null)
          => \/ shapes' = shapes
             \/ \E text \in Texts \ {""} : AppendsText(textInput, text)]_vars

\* a tool button has ended an open text entry and its string became a Shape
C28_Witness ==
    /\ ev.type = "tool" /\ ev.d = 1 /\ shapeType = "select" /\ textInput = Null
    /\ shapes # <<>> /\ shapes[Len(shapes)].type = "text"
    /\ created[Len(created)].id = shapes[Len(shapes)].id

-----------------------------------------------------------------------------
\* Claims about the wheel, checked under SpecView

\* the raw scroll deltas of the wheel event that the step handles
WheelDeltaOf(e) == CHOOSE d \in WheelDeltas : d[2] = e.d

\* pan minus the raw scroll delta
PannedBy(p, d) == [x |-> Sub(p.x, Num(d[1])), y |-> Sub(p.y, Num(d[2]))]

\* zoom one step up or down by the scroll direction, clamped
SteppedZoom(z, d) ==
    Max2(ZoomMin, Min2(ZoomMax,
         Add(z, IF d[2] < 0 THEN ZoomStep ELSE Neg(ZoomStep))))

\* the wheel event of the step, whose modifier state is modified, zooms or
\* pans as the modifier says
WheelStepAs(modified) ==
    IF modified
    THEN /\ zoom' = SteppedZoom(zoom, WheelDeltaOf(ev'))
         /\ pan' # PannedBy(pan, WheelDeltaOf(ev'))
    ELSE /\ pan' = PannedBy(pan, WheelDeltaOf(ev'))
         /\ zoom' = zoom

\* C29: a wheel event with the Ctrl or the Cmd (meta) modifier changes zoom
\* to clamp(zoom + 0.1 or - 0.1 by scroll direction, 0.1, 3.0) and does not
\* subtract the raw scroll delta from pan; a wheel event with neither
\* modifier subtracts the raw scroll delta from pan and leaves zoom unchanged
C29_WheelZoomsWithCtrlOrMeta ==
    [][ev'.type \in {"wheelZoom", "wheelPan"} =>
        WheelStepAs(ev'.type = "wheelZoom" \/ ev'.s = "meta")]_vars

\* the same with Ctrl as the only modifier that counts
C29_WheelZoomsWithCtrl ==
    [][ev'.type \in {"wheelZoom", "wheelPan"} =>
        WheelStepAs(ev'.type = "wheelZoom")]_vars

-----------------------------------------------------------------------------
\* Claims about the cursor, checked under Spec

\* getCursorStyle: the cursor of the canvas element in the current state
getCursorStyle ==
    IF isEraseMode THEN "crosshair"
    ELSE IF shapeType = "select"
    THEN IF isDragging THEN "grabbing"
         ELSE IF hoverHandle \in {"nw", "se"} THEN "nwse-resize"
         ELSE IF hoverHandle \in {"ne", "sw"} THEN "nesw-resize"
         ELSE IF /\ selectedElement # Null
                 /\ selectedElement.type = "shape"
                 /\ Find(shapes, selectedElement.id) # Null
                 /\ Find(shapes, selectedElement.id).type = "text"
         THEN "move"
         ELSE IF selectedElement # Null THEN "grab"
         ELSE "default"
    ELSE IF shapeType = "text" THEN "text"
    ELSE IF shapeType # "none" THEN "crosshair"
    ELSE "default"

\* the cursor that the table of the specification gives for the state
CursorTable ==
    IF isEraseMode THEN "crosshair"
    ELSE IF shapeType = "select"
    THEN IF isDragging THEN "grabbing"
         ELSE IF hoverHandle \in {"nw", "se"} THEN "nwse-resize"
         ELSE IF hoverHandle \in {"ne", "sw"} THEN "nesw-resize"
         ELSE IF selectedElement # Null THEN "grab"
         ELSE "default"
    ELSE IF shapeType = "text" THEN "text"
    ELSE "crosshair"

\* C30: in every reachable state the cursor is the one of this table: erase
\* mode gives crosshair; otherwise with the select tool an active drag gives
\* grabbing, a hovered corner the diagonal resize cursor (nw and se one
\* orientation, ne and sw the other), a Selection without hover grab for
\* every kind of selected element, and no Selection default; the text tool
\* gives text; every shape tool and the freehand tool give crosshair
C30_CursorMatchesTable == getCursorStyle = CursorTable

-----------------------------------------------------------------------------
(* Hit testing and handle lookup of one committed, selected element, as     *)
(* functions of the element, the stroke width of the toolbar and the        *)
(* tested point.                                                            *)

ProbeWidths == {2, 4}    \* values of the stroke width slider (1 .. 20)

\* a Stroke, one Shape of every kind drawn from (0,0) to (80,60), a text
\* Shape, and a square small enough for its handle boxes to overlap
ProbeElements ==
    {Stroke(<<WorldPt(<<0, 0>>), WorldPt(<<80, 0>>)>>, "#000000", 3,
            "normal", 1)}
    \cup {Shape(k, WorldPt(<<0, 0>>), WorldPt(<<80, 60>>), "#000000", 3, 1,
                NoText, FALSE) : k \in ShapeKinds}
    \cup {Shape("text", Point(Num(0), Num(0), NoPressure),
                Point(Num(0), Num(0), NoPressure), "#000000", 3, 1, "a",
                FALSE),
          Shape("square", WorldPt(<<0, 0>>), WorldPt(<<4, 2>>), "#000000", 3,
                1, NoText, FALSE)}

\* a point of the outline of the element (the middle of a segment, of an
\* edge or of a side, the bottom of the ellipse) and the unit vector that
\* points away from the outline there
OutlineAt(el) ==
    IF IsStroke(el)
    THEN [at |-> Mid(el.points[1], el.points[2]), dir |-> <<Num(0), Num(1)>>]
    ELSE CASE el.type = "square" ->
                [at |-> [x |-> el.startPoint.x,
                         y |-> Mid(el.startPoint, el.endPoint).y],
                 dir |-> <<Num(-1), Num(0)>>]
           [] el.type \in {"triangle", "circle"} ->
                [at |-> [x |-> Mid(el.startPoint, el.endPoint).x,
                         y |-> el.endPoint.y],
                 dir |-> <<Num(0), Num(1)>>]
           [] el.type = "arrow" ->
                [at |-> Mid(el.startPoint, el.endPoint),
                 dir |-> <<Frac(-3, 5), Frac(4, 5)>>]
           [] el.type = "diamond" ->
                [at |-> [x |-> Num(60), y |-> Num(15)],
                 dir |-> <<Frac(3, 5), Frac(-4, 5)>>]
           [] el.type = "text" ->
                [at |-> [x |-> el.startPoint.x,
                         y |-> Sub(el.startPoint.y, Num(15))],
                 dir |-> <<Num(-1), Num(0)>>]

\* distances of the tested point from the outline, in margins
ProbeFactors == <<Frac(1, 2), Num(1), Num(2)>>

\* the point at i-th factor times the margin m from the outline of el
NearProbe(el, m, i) ==
    [x |-> Add(OutlineAt(el).at.x,
               Mul(Mul(ProbeFactors[i], m), OutlineAt(el).dir[1])),
     y |-> Add(OutlineAt(el).at.y,
               Mul(Mul(ProbeFactors[i], m), OutlineAt(el).dir[2]))]

\* offsets of the tested point from the centre of a handle on each axis
HandleOffsets == <<-11, -10, 0, 10, 11>>

\* the i-th tested point around the handles of el (0 <= i < 100): the centre
\* of handle number i \div 25 of HandleOrder, plus an offset on each axis
HandleProbe(el, i) ==
    [x |-> Add(HandleCentre(BoundsOf(el), HandleOrder[(i \div 25) + 1]).x,
               Num(HandleOffsets[((i % 25) \div 5) + 1])),
     y |-> Add(HandleCentre(BoundsOf(el), HandleOrder[(i \div 25) + 1]).y,
               Num(HandleOffsets[(i % 5) + 1]))]

\* the committed element of the state
ProbeElement == IF strokes # <<>> THEN strokes[1] ELSE shapes[1]

InitProbe ==
    /\ zoom = Num(1)
    /\ pan = [x |-> Num(0), y |-> Num(0)]
    /\ isPanning = FALSE
    /\ lastPanPoint = Null
    /\ isDrawing = FALSE
    /\ currentPoints = <<>>
    /\ currentShape = Null
    /\ textInput = Null
    /\ isDragging = FALSE
    /\ isResizing = FALSE
    /\ dragStart = Null
    /\ resizeHandle = NoHandle
    /\ hoverHandle = NoHandle
    /\ shapeType = "select"
    /\ isEraseMode = FALSE
    /\ strokeWidth \in ProbeWidths
    /\ color = "#000000"
    /\ brushType = "normal"
    /\ \E el \in ProbeElements :
         /\ strokes = IF IsStroke(el) THEN <<el>> ELSE <<>>
         /\ shapes = IF IsStroke(el) THEN <<>> ELSE <<el>>
         /\ selectedElement = [type |-> IF IsStroke(el) THEN "stroke"
                                        ELSE "shape", id |-> 1]
         /\ created = <<selectedElement>>
    /\ nextId = 1
    /\ ev = NoEvent
    /\ viewLog = <<>>
    /\ gesture = NoGesture
    /\ budget = NoBudget

\* isPointNearStroke or isPointNearShape applied to the element and a point
\* at half the margin, the margin, or twice the margin from its outline
NearTest ==
    /\ \E i \in 1..Len(ProbeFactors) :
         \E p \in {NearProbe(ProbeElement, Margin(strokeWidth), i)} :
           ev' = Event("nearTest", i, 0, 0,
                       IF (IF IsStroke(ProbeElement)
                           THEN isPointNearStroke(p.x, p.y,
                                                  ProbeElement.points,
                                                  strokeWidth)
                           ELSE isPointNearShape(p.x, p.y, ProbeElement,
                                                 strokeWidth))
                       THEN "hit" ELSE "miss")
    /\ UNCHANGED <<viewVars, viewLog, isPanning, lastPanPoint, gestureVars,
                   textInput, toolVars, sceneVars, budget, gesture>>

\* getResizeHandle applied to the element and a point around its handles
HandleTest ==
    /\ \E i \in 0..99 :
         \E p \in {HandleProbe(ProbeElement, i)} :
           ev' = Event("handleTest", i, 0, 0,
                       getResizeHandle(p.x, p.y, ProbeElement))
    /\ UNCHANGED <<viewVars, viewLog, isPanning, lastPanPoint, gestureVars,
                   textInput, toolVars, sceneVars, budget, gesture>>

NextProbe == NearTest \/ HandleTest

SpecProbe == InitProbe /\ [][NextProbe]_vars

\* the point is on the border of the hit box of handle h of the bounds b
OnHandleBorder(p, b, h) ==
    /\ InHandle(p.x, p.y, b, h)
    /\ \/ AbsN(Sub(p.x, HandleCentre(b, h).x)) = Frac(HandleHitSize, 2)
       \/ AbsN(Sub(p.y, HandleCentre(b, h).y)) = Frac(HandleHitSize, 2)

\* C31: every hit test has inclusive boundaries: a point whose distance from
\* a Stroke segment, from a triangle, diamond or arrow edge or from the
\* ellipse perimeter is exactly the margin, a point exactly on the border of
\* the margin band of a rectangle or a text, and a point exactly on the
\* border of the hit box of a resize handle are reported as hits
C31_HitTestsInclusive ==
    /\ (ev.type = "nearTest" /\ ProbeFactors[ev.x] = Num(1)) => ev.s = "hit"
    /\ (ev.type = "handleTest"
        /\ \E h \in Range(HandleOrder) :
              OnHandleBorder(HandleProbe(ProbeElement, ev.x),
                             BoundsOf(ProbeElement), h))
       => ev.s # NoHandle

\* the same for the tests that compare with <=: the margin band of a
\* rectangle or a text and the hit boxes of the handles
C31_BandsAndBoxesInclusive ==
    /\ (ev.type = "nearTest" /\ ProbeFactors[ev.x] = Num(1)
        /\ ~IsStroke(ProbeElement)
        /\ ProbeElement.type \in {"square", "text"}) => ev.s = "hit"
    /\ (ev.type = "handleTest"
        /\ \E h \in Range(HandleOrder) :
              OnHandleBorder(HandleProbe(ProbeElement, ev.x),
                             BoundsOf(ProbeElement), h))
       => ev.s # NoHandle

\* the corner h of the bounds b expanded by the padding on every side
PaddedCorner(b, h) ==
    [x |-> IF Includes(h, "w") THEN Sub(b.x, Num(HandlePadding))
           ELSE Add(Add(b.x, b.width), Num(HandlePadding)),
     y |-> IF Includes(h, "n") THEN Sub(b.y, Num(HandlePadding))
           ELSE Add(Add(b.y, b.height), Num(HandlePadding))]

\* p lies in the square of side HandleHitSize centred on c
InHitBox(p, c) ==
    /\ Le(AbsN(Sub(p.x, c.x)), Frac(HandleHitSize, 2))
    /\ Le(AbsN(Sub(p.y, c.y)), Frac(HandleHitSize, 2))

\* the handles whose hit box contains the tested point of the handle test
HandlesAt(i) ==
    {k \in 1..4 : InHitBox(HandleProbe(ProbeElement, i),
                           PaddedCorner(BoundsOf(ProbeElement),
                                        HandleOrder[k]))}

\* C32: getResizeHandle returns a handle exactly when the point lies in the
\* 20 x 20 hit box centred on one of the four corners of the element's
\* bounds expanded by the padding of 8; when the point lies in several hit
\* boxes it returns the first of them in the order nw, ne, sw, se, and it
\* returns none when the point is in no hit box
C32_HandleIsFirstHitBox ==
    ev.type = "handleTest" =>
        IF HandlesAt(ev.x) = {} THEN ev.s = NoHandle
        ELSE /\ ev.s # NoHandle
             /\ \E k \in HandlesAt(ev.x) :
                  /\ ev.s = HandleOrder[k]
                  /\ \A j \in HandlesAt(ev.x) : k <= j

\* a point in the hit boxes of ne and se only gave ne
C32_Witness ==
    /\ ev.type = "handleTest" /\ ev.s = "ne"
    /\ HandlesAt(ev.x) = {2, 4}

-----------------------------------------------------------------------------
\* Claims about degenerate and missing elements, checked under Spec

\* a non-text Shape whose two anchors are the same point
Degenerate(shape) ==
    /\ shape.type # "text"
    /\ shape.startPoint.x = shape.endPoint.x
    /\ shape.startPoint.y = shape.endPoint.y

\* the Shape is not the one a select click of the step selects, an erase
\* gesture that ends in the step keeps it, and only an undo removes it
InertIn(shape) ==
    /\ (ev'.type = "pointerDown" /\ ev'.s = "selectShape")
       => selectedElement' # [type |-> "shape", id |-> shape.id]
    /\ ev'.type # "undo" => ~Removed(shape.id, shapes')

\* C33: a Shape whose anchor box has zero area (startPoint = endPoint, as
\* committed by a click without a move) is skipped by hit testing: no
\* select click selects it, no erase gesture removes it, and it stays in
\* the Shape collection until undo removes it
C33_DegenerateShapeInert ==
    [][\A i \in 1..Len(shapes) : Degenerate(shapes[i]) => InertIn(shapes[i])]_vars

\* the same for ellipses only
C33_DegenerateEllipseInert ==
    [][\A i \in 1..Len(shapes) :
          (Degenerate(shapes[i]) /\ shapes[i].type = "circle")
          => InertIn(shapes[i])]_vars

\* the Selection names an id that its collection no longer holds
SelectionMissing ==
    /\ selectedElement # Null
    /\ SelectedIn(selectedElement, shapes, strokes) = Null

\* the Selection is cleared, no mode is active and nothing was moved
ClearedAndIdle ==
    /\ selectedElement' = Null
    /\ ~isDragging' /\ ~isResizing'
    /\ shapes' = shapes /\ strokes' = strokes

\* C34: when the selected id is no longer in its collection, the next
\* pointer input with the select tool (a pointer-move, or a pointer-down
\* that hits nothing) clears the Selection and leaves the canvas idle, and
\* no drag or resize is performed on the missing element
C34_MissingSelectionCleared ==
    [][(SelectionMissing /\ shapeType = "select" /\ ~isEraseMode
        /\ \/ ev'.type = "pointerMove"
           \/ ev'.type = "pointerDown" /\ ev'.s = "clear")
       => ClearedAndIdle]_vars

\* the same for the pointer-down that hits nothing alone, outside a gesture
C34_MissingSelectionClearedByDown ==
    [][(SelectionMissing /\ shapeType = "select" /\ ~isEraseMode
        /\ gesture.kind = "none"
        /\ ev'.type = "pointerDown" /\ ev'.s = "clear")
       => ClearedAndIdle]_vars

-----------------------------------------------------------------------------
\* Claims about the end of a gesture and what it leaves behind, checked
\* under Spec

\* C35: pan changes from pointer movement only inside a pan gesture: after
\* the pointer-up or pointer-out that ends a gesture, a pointer-move does not
\* change pan until a new pointer-down, even while Space is still held
C35_PanOnlyInsideGesture ==
    [][(ev'.type = "pointerMove" /\ gesture.kind = "none") => pan' = pan]_vars

\* C36: after every pointer-up no in-progress element remains: the
\* in-progress shape is null and the in-progress point list is empty,
\* whatever the active tool and the erase flag are at the pointer-up (also
\* when they were changed between pointer-down and pointer-up)
C36_PointerUpClearsInProgress ==
    IsPointerUp(ev) => (currentShape = Null /\ currentPoints = <<>>)

\* the in-progress point list alone
C36_PointerUpClearsPoints == IsPointerUp(ev) => currentPoints = <<>>

-----------------------------------------------------------------------------
\* Claims about resizing by a corner handle, checked under Spec

\* the bounding box of the two anchors of a Shape
AnchorBox(shape) ==
    [minX |-> Min2(shape.startPoint.x, shape.endPoint.x),
     maxX |-> Max2(shape.startPoint.x, shape.endPoint.x),
     minY |-> Min2(shape.startPoint.y, shape.endPoint.y),
     maxY |-> Max2(shape.startPoint.y, shape.endPoint.y)]

\* the corner of box diagonally opposite to the handle
OppositeCorner(box, handle) ==
    [x |-> IF Includes(handle, "w") THEN box.maxX ELSE box.minX,
     y |-> IF Includes(handle, "n") THEN box.maxY ELSE box.minY]

\* the box spanned by the points p and q
BoxSpanned(p, q) ==
    [minX |-> Min2(p.x, q.x), maxX |-> Max2(p.x, q.x),
     minY |-> Min2(p.y, q.y), maxY |-> Max2(p.y, q.y)]

\* after the step the box of the i-th Shape is spanned by the corner of its
\* old box opposite to the handle and the pointer
KeepsOppositeCorner(i) ==
    AnchorBox(shapes'[i])
      = BoxSpanned(OppositeCorner(AnchorBox(shapes[i]), resizeHandle),
                   DownPoint)

\* C37: in a resize move on a selected non-text Shape with handle h the
\* corner of the Shape's bounding box diagonally opposite to h stays fixed
\* and the corner at h follows the pointer, for every orientation of the
\* anchors (also when startPoint is greater than endPoint on an axis)
C37_ResizeKeepsOppositeCorner ==
    [][ShapeResizeStep =>
        \A i \in 1..Len(shapes) :
            (shapes[i].id = selectedElement.id /\ shapes[i].type # "text")
            => KeepsOppositeCorner(i)]_vars

\* the same for Shapes drawn from the top left to the bottom right
C37_ResizeKeepsOppositeCornerForward ==
    [][ShapeResizeStep =>
        \A i \in 1..Len(shapes) :
            (/\ shapes[i].id = selectedElement.id /\ shapes[i].type # "text"
             /\ ~shapes[i].shared
             /\ Le(shapes[i].startPoint.x, shapes[i].endPoint.x)
             /\ Le(shapes[i].startPoint.y, shapes[i].endPoint.y))
            => KeepsOppositeCorner(i)]_vars

\* Claims about resizing a Stroke without extent

\* the step is a pointer-move that resizes the selected Stroke, whose box has
\* zero width or zero height
FlatStrokeResizeStep ==
    /\ ev'.type = "pointerMove" /\ ev'.s = "resize"
    /\ selectedElement.type = "stroke"
    /\ Find(strokes, selectedElement.id) # Null
    /\ \/ BoxOf(Find(strokes, selectedElement.id)).maxX
            = BoxOf(Find(strokes, selectedElement.id)).minX
       \/ BoxOf(Find(strokes, selectedElement.id)).maxY
            = BoxOf(Find(strokes, selectedElement.id)).minY

\* both coordinates of every point of the stroke are finite numbers
WellDefinedPoints(stroke) ==
    \A i \in 1..Len(stroke.points) :
        IsFinite(stroke.points[i].x) /\ IsFinite(stroke.points[i].y)

\* C38: a resize move on a selected Stroke whose bounding box has zero
\* width or zero height leaves every point of the Stroke with well-defined
\* coordinates (no division by zero, no NaN or infinite coordinate)
C38_FlatStrokeResizeWellDefined ==
    [][FlatStrokeResizeStep
       => WellDefinedPoints(Find(strokes', selectedElement.id))]_vars

\* every committed Stroke has well-defined coordinates as long as no Stroke
\* without width or height has been resized
C38_WellDefinedUnlessFlatResized ==
    [][(/\ \A i \in 1..Len(strokes) : WellDefinedPoints(strokes[i])
        /\ ~FlatStrokeResizeStep)
       => \A i \in 1..Len(strokes') : WellDefinedPoints(strokes'[i])]_vars

\* Claims about what the hit tests depend on

\* the selection that a select click at point makes when the hit tests run
\* with the stroke width w: the topmost Shape under the point, else the
\* topmost Stroke under it, else none
PickedWith(point, w) ==
    LET si == MaxIndex({i \in 1..Len(shapes) :
                  isPointNearShape(point.x, point.y, shapes[i], w)})
        ki == MaxIndex({i \in 1..Len(strokes) :
                  isPointNearStroke(point.x, point.y, strokes[i].points, w)})
    IN  IF si # 0 THEN [type |-> "shape", id |-> shapes[si].id]
        ELSE IF ki # 0 THEN [type |-> "stroke", id |-> strokes[ki].id]
        ELSE Null

\* the Strokes and Shapes that the eraser path leaves when the hit tests run
\* with the stroke width w
LeftWith(path, w) ==
    [strokes |-> Kept(strokes, {i \in 1..Len(strokes) :
                          EraserHitsStroke(strokes[i], path, w)}),
     shapes |-> Kept(shapes, {i \in 1..Len(shapes) :
                         EraserHitsShape(shapes[i], path, w)})]

\* the step is a select click that runs the selection, or the pointer-up of
\* an erase gesture
SelectClickStep ==
    /\ ev'.type = "pointerDown"
    /\ ev'.s \in {"selectShape", "selectStroke", "clear"}
EraseEndStep == ev'.type = "pointerUp" /\ ev'.s = "erase"

\* C39: hit-testing of a committed element does not depend on the stroke
\* width of the toolbar: whichever of the slider's values the toolbar holds,
\* a select click selects the same element and an erase gesture removes the
\* same elements
C39_HitTestsIgnoreToolbarWidth ==
    [][/\ SelectClickStep
          => \A w \in Widths : selectedElement' = PickedWith(DownPoint, w)
       /\ EraseEndStep
          => \A w \in Widths :
                /\ strokes' = LeftWith(currentPoints, w).strokes
                /\ shapes' = LeftWith(currentPoints, w).shapes]_vars

\* the select click and the erase gesture run their hit tests with the
\* stroke width of the toolbar
C39_HitTestsUseToolbarWidth ==
    [][/\ SelectClickStep
          => selectedElement' = PickedWith(DownPoint, strokeWidth)
       /\ EraseEndStep
          => /\ strokes' = LeftWith(currentPoints, strokeWidth).strokes
             /\ shapes' = LeftWith(currentPoints, strokeWidth).shapes]_vars

\* Claims about wheel events handled before the next render, checked under
\* SpecBatch

\* the step handles two Ctrl-wheel events with the cursor at one screen
\* point before the component renders again
CtrlWheelPairStep ==
    /\ ev'.type = "wheelBatch"
    /\ viewLog'[1].type = "wheelZoom" /\ viewLog'[2].type = "wheelZoom"
    /\ FixedPoint(viewLog'[1]) = FixedPoint(viewLog'[2])

\* C40: when two Ctrl-wheel events are handled before the component renders
\* again (both handlers reading the same rendered zoom), zoom and pan stay
\* consistent: after both events the world point under the cursor is the
\* same as before them
C40_BatchedWheelKeepsCursorPoint ==
    [][CtrlWheelPairStep
       => WorldOf(FixedPoint(viewLog'[1]), zoom', pan')
            = WorldOf(FixedPoint(viewLog'[1]), zoom, pan)]_vars

\* the same when neither event changes the zoom of the render (both ask
\* for more than 3.0 or for less than 0.1), or when the pan of the render
\* puts the world origin under the cursor
C40_BatchedWheelKeepsCursorPointAtRest ==
    [][(/\ CtrlWheelPairStep
        /\ \/ viewLog'[1].pan = pan /\ zoom' = zoom
           \/ /\ pan.x = FixedPoint(viewLog'[1]).x
              /\ pan.y = FixedPoint(viewLog'[1]).y)
       => WorldOf(FixedPoint(viewLog'[1]), zoom', pan')
            = WorldOf(FixedPoint(viewLog'[1]), zoom, pan)]_vars
====
